---------------------------- MODULE Spec2Model ----------------------------
(***************************************************************************)
(* Model of the protocol engine of the MCP testing environment:            *)
(*   - SimpleMCPServer  (src/simple_mcp_server.py): the read loop `run`,   *)
(*     the dispatcher `handle_request` and its handlers;                   *)
(*   - MCPClientSimulator (src/mcp_client_simulator.py): the API methods,  *)
(*     `next_id` and `send_request` over the stdio pipes;                  *)
(*   - LogAggregator (src/log_aggregator.py): the log buffer and           *)
(*     `add_log`;                                                          *)
(*   - MCPTestingEnvironment (src/mcp_testing_environment.py): the         *)
(*     component table and `start_component`, `stop_component`,            *)
(*     `check_component_status`.                                           *)
(*                                                                         *)
(* Python values are tagged records, so that values of different Python    *)
(* types can be compared.  A line on a pipe is either a text that          *)
(* json.loads rejects, or the serialisation of a value.                    *)
(***************************************************************************)
EXTENDS Integers, Sequences, FiniteSets, TLC

(***************************************************************************)
(* Bounds of the model.                                                    *)
(***************************************************************************)
\* number of client coroutines that may call the API of one client object
NumCallers == 2
\* cap on the ids a client allocates when it runs against the server
MaxId == 11
\* cap on the ids a client allocates when it runs against a scripted peer
MaxPeerId == 2
\* cap on the number of lines a scripted peer writes to the client
MaxPeerLines == 1
\* the largest id of a run of the one caller against the scripted peer
MaxScriptId == 4
\* the number of lines the scripted peer writes to the one caller
MaxScriptLines == 3
\* cap on the number of lines a line feeder writes to the server
MaxLines == 3
\* the integer arguments of the arithmetic requests lie in -ArgRange..ArgRange
ArgRange == 1
\* the ids of the arithmetic requests lie in 1..MaxRequestId
MaxRequestId == 2
\* max_logs of the model's LogAggregator (10000 in the source)
MaxLogs == 2
\* cap on the number of calls of add_log
MaxAdded == 4
\* number of requests the testing environment serves at a time
NumTasks == 1
\* cap on the number of process handles the environment holds at a time
MaxProcs == 1

(***************************************************************************)
(* Python / JSON values.                                                   *)
(***************************************************************************)
None == [t |-> "null"]
Num(n) == [t |-> "num", n |-> n]
Str(s) == [t |-> "str", s |-> s]
Bool(b) == [t |-> "bool", b |-> b]
\* float('nan'), what json.loads makes of the literal NaN
NaN == [t |-> "nan"]
\* a list
Arr(a) == [t |-> "arr", a |-> a]
\* a dict with string keys: f is a function from the keys to the values
Obj(f) == [t |-> "obj", f |-> f]
EmptyDict == [k \in {} |-> k]

IsObj(v) == v.t = "obj"
IsArr(v) == v.t = "arr"
IsStr(v) == v.t = "str"
IsNum(v) == v.t = "num"

\* bool(v): the truth value Python gives a value
Truthy(v) ==
    CASE v.t = "null" -> FALSE
      [] v.t = "num"  -> v.n # 0
      [] v.t = "str"  -> v.s # ""
      [] v.t = "bool" -> v.b
      [] v.t = "arr"  -> v.a # <<>>
      [] v.t = "obj"  -> DOMAIN v.f # {}
      [] OTHER        -> TRUE

\* whether `key in v` is defined (dict, list, str); on the other types it
\* raises TypeError
Iterable(v) == v.t \in {"obj", "arr", "str"}

\* `key in v` for a string key: a key of a dict, an element of a list, a
\* substring of a str (the strings of the model contain a key only when they
\* are equal to it)
PyIn(key, v) ==
    CASE v.t = "obj" -> key \in DOMAIN v.f
      [] v.t = "arr" -> \E i \in DOMAIN v.a : v.a[i] = Str(key)
      [] v.t = "str" -> v.s = key
      [] OTHER       -> FALSE

\* d.get(key, default) on a dict
PyGet(d, key, default) == IF key \in DOMAIN d.f THEN d.f[key] ELSE default

\* whether a value can be a dict key (`x in some_dict` raises TypeError for
\* lists and dicts)
Hashable(v) == v.t \notin {"arr", "obj"}

(***************************************************************************)
(* Lines on a pipe, json.dumps and json.loads.                             *)
(***************************************************************************)
\* a line of text that is not JSON (json.loads raises JSONDecodeError)
Text(s) == [k |-> "text", s |-> s]
\* a line of brackets nested deeper than the recursion limit, never closed
DeepLine == [k |-> "deep"]
\* the line json.dumps(v) writes for a value
json_dumps(v) == [k |-> "json", v |-> v]

\* whether a value contains float('nan'), which json.dumps writes as the
\* literal NaN: a literal that is not JSON
RECURSIVE HasNaN(_)
HasNaN(v) ==
    CASE v.t = "nan" -> TRUE
      [] v.t = "arr" -> \E i \in DOMAIN v.a : HasNaN(v.a[i])
      [] v.t = "obj" -> \E key \in DOMAIN v.f : HasNaN(v.f[key])
      [] OTHER       -> FALSE

\* whether a line is well-formed JSON text
WellFormedJSON(line) == line.k = "json" /\ ~HasNaN(line.v)

\* a text of 70000 characters, all of them x
LongText == "x * 70000"

\* whether a value holds the long text
RECURSIVE HasLongText(_)
HasLongText(v) ==
    CASE v.t = "str" -> v.s = LongText
      [] v.t = "arr" -> \E i \in DOMAIN v.a : HasLongText(v.a[i])
      [] v.t = "obj" -> \E key \in DOMAIN v.f : HasLongText(v.f[key])
      [] OTHER       -> FALSE

\* whether a line is longer than the limit of asyncio.StreamReader() (2**16
\* bytes, the default connect() leaves in place): of the lines of the model,
\* the ones that hold the long text
LimitOverrun(line) == line.k = "json" /\ HasLongText(line.v)

\* json.loads(line): the value, or the exception it raises.  The decoder
\* accepts the literals NaN, Infinity and -Infinity.
json_loads(line) ==
    CASE line.k = "text" -> [exc |-> "JSONDecodeError", v |-> None]
      [] line.k = "deep" -> [exc |-> "RecursionError", v |-> None]
      [] OTHER           -> [exc |-> "none", v |-> line.v]


(***************************************************************************)
(* SimpleMCPServer: the state after construction.                          *)
(***************************************************************************)
\* self.capabilities
ServerCapabilities ==
    Obj([resources |-> Obj([list |-> Obj(EmptyDict), get |-> Obj(EmptyDict)]),
         prompts   |-> Obj([list |-> Obj(EmptyDict), execute |-> Obj(EmptyDict)]),
         tools     |-> Obj([list |-> Obj(EmptyDict), execute |-> Obj(EmptyDict)])])

\* self.resources, in insertion order
ServerResources ==
    << [uri |-> "sample_text", type |-> "text/plain",
        content |-> "This is a sample text resource."],
       [uri |-> "sample_image", type |-> "image/png",
        content |-> "base64encodedimagedatawouldgohere"] >>

\* self.prompts, in insertion order; args lists the declared arguments in
\* declaration order
ServerPrompts ==
    << [id |-> "echo", description |-> "Echo the input text",
        args |-> << [name |-> "text", type |-> "string", description |-> "Text to echo"] >>],
       [id |-> "reverse", description |-> "Reverse the input text",
        args |-> << [name |-> "text", type |-> "string", description |-> "Text to reverse"] >>] >>

\* self.tools, in insertion order
ServerTools ==
    << [id |-> "add", description |-> "Add two numbers",
        args |-> << [name |-> "a", type |-> "number", description |-> "First number"],
                    [name |-> "b", type |-> "number", description |-> "Second number"] >>],
       [id |-> "multiply", description |-> "Multiply two numbers",
        args |-> << [name |-> "a", type |-> "number", description |-> "First number"],
                    [name |-> "b", type |-> "number", description |-> "Second number"] >>] >>

\* SimpleMCPServer.__init__
ServerInit ==
    [request_id   |-> 0,
     running      |-> TRUE,
     capabilities |-> ServerCapabilities,
     resources    |-> ServerResources,
     prompts      |-> ServerPrompts,
     tools        |-> ServerTools]

\* the keys of a registry (uri or id), as a set
RegistryKeys(reg, keyfield) == { reg[i][keyfield] : i \in DOMAIN reg }
\* the entry of a registry under a key
RegistryEntry(reg, keyfield, key) ==
    reg[CHOOSE i \in DOMAIN reg : reg[i][keyfield] = key]

\* the dict of declared arguments of a prompt or tool, as it is serialised
ArgsDict(args) ==
    Obj([name \in { args[i].name : i \in DOMAIN args } |->
           LET a == args[CHOOSE i \in DOMAIN args : args[i].name = name]
           IN  Obj([type |-> Str(a.type), description |-> Str(a.description)])])

(***************************************************************************)
(* SimpleMCPServer: responses.                                             *)
(***************************************************************************)
\* create_error_response with a null result member next to the error
create_error_response_withResult(id, code, message) ==
    Obj([jsonrpc |-> Str("2.0"),
         id      |-> id,
         result  |-> None,
         error   |-> Obj([code |-> Num(code), message |-> Str(message)])])

\* create_error_response(id, code, message), before json.dumps
create_error_response(id, code, message) ==
    Obj([jsonrpc |-> Str("2.0"),
         id      |-> id,
         error   |-> Obj([code |-> Num(code), message |-> Str(message)])])

\* a success response, before json.dumps
result_response(id, result) ==
    Obj([jsonrpc |-> Str("2.0"), id |-> id, result |-> result])

\* what a handler hands back: the response (or that it raised), the lines it
\* printed to standard output, and the server's state after it
Returned(self, resp) == [exc |-> FALSE, resp |-> resp, prints |-> <<>>, self |-> self]
Raised(self) == [exc |-> TRUE, resp |-> None, prints |-> <<>>, self |-> self]

\* the number of lines of json.dumps(v, indent=2)
RECURSIVE IndentLines(_)
IndentLines(v) ==
    CASE v.t = "obj" /\ DOMAIN v.f # {} ->
           LET RECURSIVE Sum(_)
               Sum(ks) == IF ks = {} THEN 0
                          ELSE LET key == CHOOSE x \in ks : TRUE
                               IN  IndentLines(v.f[key]) + Sum(ks \ {key})
           IN  2 + Sum(DOMAIN v.f)
      [] v.t = "arr" /\ v.a # <<>> ->
           LET RECURSIVE SumA(_)
               SumA(i) == IF i = 0 THEN 0 ELSE IndentLines(v.a[i]) + SumA(i - 1)
           IN  2 + SumA(Len(v.a))
      [] OTHER -> 1

\* handle_initialize emptying the resource registry
handle_initialize_clears(self, id, params) ==
    IF ~IsObj(params) THEN Raised(self)
    ELSE Returned([self EXCEPT !.resources = <<>>],
                  result_response(id, Obj([capabilities |-> self.capabilities,
                                           serverInfo   |-> Obj([name    |-> Str("Simple MCP Server"),
                                                                 version |-> Str("1.0.0")])])))

\* handle_initialize stopping the read loop
handle_initialize_stops(self, id, params) ==
    IF ~IsObj(params) THEN Raised(self)
    ELSE Returned([self EXCEPT !.running = FALSE],
                  result_response(id, Obj([capabilities |-> self.capabilities,
                                           serverInfo   |-> Obj([name    |-> Str("Simple MCP Server"),
                                                                 version |-> Str("1.0.0")])])))

\* handle_initialize: prints the client's name and version on one line, the
\* client's capabilities over the lines of an indented dump, and returns the
\* server's capabilities and serverInfo
handle_initialize(self, id, params) ==
    IF ~IsObj(params) THEN Raised(self)
    ELSE LET client_capabilities == PyGet(params, "capabilities", Obj(EmptyDict))
             client_info == PyGet(params, "clientInfo", Obj(EmptyDict))
         IN  IF ~IsObj(client_info) THEN Raised(self)
             ELSE [exc    |-> FALSE,
                   resp   |-> result_response(id,
                                Obj([capabilities |-> self.capabilities,
                                     serverInfo   |-> Obj([name    |-> Str("Simple MCP Server"),
                                                           version |-> Str("1.0.0")])])),
                   prints |-> <<Text("Client connected: <name> <version>"),
                                Text("Client capabilities: <first line of the dump>")>>
                              \o [i \in 1..(IndentLines(client_capabilities) - 1) |->
                                    Text("<next line of the dump>")],
                   self   |-> self]

\* handle_shutdown without `self.running = False`
handle_shutdown_keepsRunning(self, id, params) ==
    Returned(self, result_response(id, Obj(EmptyDict)))

\* handle_shutdown
handle_shutdown(self, id, params) ==
    Returned([self EXCEPT !.running = FALSE], result_response(id, Obj(EmptyDict)))

\* handle_resources_list emptying self.resources after listing it
handle_resources_list_drains(self, id, params) ==
    Returned([self EXCEPT !.resources = <<>>], result_response(id,
        Obj([resources |-> Arr([i \in DOMAIN self.resources |->
                Obj([uri  |-> Str(self.resources[i].uri),
                     type |-> Str(self.resources[i].type)])])])))

\* handle_resources_list leaving out the last resource for the request id 1
handle_resources_list_byId(self, id, params) ==
    Returned(self, result_response(id,
        Obj([resources |-> Arr([i \in 1..(Len(self.resources) - (IF id = Num(1) THEN 1 ELSE 0)) |->
                Obj([uri  |-> Str(self.resources[i].uri),
                     type |-> Str(self.resources[i].type)])])])))

\* handle_resources_list
handle_resources_list(self, id, params) ==
    Returned(self, result_response(id,
        Obj([resources |-> Arr([i \in DOMAIN self.resources |->
                Obj([uri  |-> Str(self.resources[i].uri),
                     type |-> Str(self.resources[i].type)])])])))

\* handle_resources_get
handle_resources_get(self, id, params) ==
    IF ~IsObj(params) THEN Raised(self)
    ELSE LET uri == PyGet(params, "uri", None)
         IN  IF ~Truthy(uri) THEN
                 Returned(self, create_error_response(id, -32602, "Resource not found: <uri>"))
             ELSE IF ~Hashable(uri) THEN Raised(self)
             ELSE IF ~(IsStr(uri) /\ uri.s \in RegistryKeys(self.resources, "uri")) THEN
                 Returned(self, create_error_response(id, -32602, "Resource not found: <uri>"))
             ELSE LET resource == RegistryEntry(self.resources, "uri", uri.s)
                  IN  Returned(self, result_response(id,
                          Obj([uri     |-> uri,
                               type    |-> Str(resource.type),
                               content |-> Str(resource.content)])))

\* handle_prompts_list
handle_prompts_list(self, id, params) ==
    Returned(self, result_response(id,
        Obj([prompts |-> Arr([i \in DOMAIN self.prompts |->
                Obj([id          |-> Str(self.prompts[i].id),
                     description |-> Str(self.prompts[i].description),
                     args        |-> ArgsDict(self.prompts[i].args)])])])))

\* handle_tools_list
handle_tools_list(self, id, params) ==
    Returned(self, result_response(id,
        Obj([tools |-> Arr([i \in DOMAIN self.tools |->
                Obj([id          |-> Str(self.tools[i].id),
                     description |-> Str(self.tools[i].description),
                     args        |-> ArgsDict(self.tools[i].args)])])])))

\* the validation loop returning at the last declared argument that is not
\* in args instead of the first
FirstMissing_last(decl, args) ==
    IF \E i \in DOMAIN decl : ~PyIn(decl[i].name, args)
    THEN CHOOSE i \in DOMAIN decl :
            /\ ~PyIn(decl[i].name, args)
            /\ \A j \in (i + 1)..Len(decl) : PyIn(decl[j].name, args)
    ELSE 0

\* the first declared argument that is not in args (0 when none is missing)
FirstMissing(decl, args) ==
    IF \E i \in DOMAIN decl : ~PyIn(decl[i].name, args)
    THEN CHOOSE i \in DOMAIN decl :
            /\ ~PyIn(decl[i].name, args)
            /\ \A j \in 1..(i - 1) : PyIn(decl[j].name, args)
    ELSE 0

\* the message of the error for a missing argument
MissingMessage(name) ==
    CASE name = "a"    -> "Missing argument: a"
      [] name = "b"    -> "Missing argument: b"
      [] name = "text" -> "Missing argument: text"
      [] OTHER         -> "Missing argument: <name>"

\* s[::-1] on the strings of the model
ReverseStr(s) ==
    CASE s = "ab" -> "ba"
      [] s = "ba" -> "ab"
      [] OTHER    -> s

\* handle_prompts_execute
handle_prompts_execute(self, id, params) ==
    IF ~IsObj(params) THEN Raised(self)
    ELSE LET prompt_id == PyGet(params, "id", None)
             args == PyGet(params, "args", Obj(EmptyDict))
         IN  IF ~Truthy(prompt_id) THEN
                 Returned(self, create_error_response(id, -32602, "Prompt not found: <id>"))
             ELSE IF ~Hashable(prompt_id) THEN Raised(self)
             ELSE IF ~(IsStr(prompt_id) /\ prompt_id.s \in RegistryKeys(self.prompts, "id")) THEN
                 Returned(self, create_error_response(id, -32602, "Prompt not found: <id>"))
             ELSE LET prompt == RegistryEntry(self.prompts, "id", prompt_id.s)
                      missing == FirstMissing(prompt.args, args)
                  IN  IF ~Iterable(args) THEN Raised(self)
                      ELSE IF missing # 0 THEN
                          Returned(self, create_error_response(id, -32602,
                                             MissingMessage(prompt.args[missing].name)))
                      ELSE IF ~IsObj(args) THEN Raised(self)
                      ELSE IF prompt_id.s = "echo" THEN
                          Returned(self, result_response(id, Obj([result |-> args.f["text"]])))
                      ELSE IF prompt_id.s = "reverse" THEN
                          LET text == args.f["text"]
                          IN  IF IsStr(text) THEN
                                  Returned(self, result_response(id,
                                      Obj([result |-> Str(ReverseStr(text.s))])))
                              ELSE IF IsArr(text) THEN
                                  Returned(self, result_response(id,
                                      Obj([result |-> Arr([i \in DOMAIN text.a |->
                                                             text.a[Len(text.a) + 1 - i]])])))
                              ELSE Raised(self)
                      ELSE Returned(self, result_response(id, Obj([result |-> Str("Unknown prompt")])))

\* int, bool and float take part in arithmetic (bool as 0 or 1)
IsNumeric(v) == v.t \in {"num", "bool", "nan"}
NumericVal(v) == IF v.t = "bool" THEN (IF v.b THEN 1 ELSE 0) ELSE v.n
IsCount(v) == v.t \in {"num", "bool"}

\* a list repeated n times
RECURSIVE RepeatSeq(_, _)
RepeatSeq(q, n) == IF n <= 0 THEN <<>> ELSE q \o RepeatSeq(q, n - 1)

\* a str repeated n times (a text of the model stands for its repetitions)
RepeatStr(s, n) == IF n <= 0 \/ s = "" THEN "" ELSE IF n = 1 THEN s ELSE "<repeated>"

\* a + b of Python: the sum of two numbers, the concatenation of two strings
\* or of two lists; TypeError on every other pair
PyAdd(a, b) ==
    CASE IsNumeric(a) /\ IsNumeric(b) ->
           IF a.t = "nan" \/ b.t = "nan" THEN [exc |-> FALSE, v |-> NaN]
           ELSE [exc |-> FALSE, v |-> Num(NumericVal(a) + NumericVal(b))]
      [] IsStr(a) /\ IsStr(b) ->
           [exc |-> FALSE,
            v |-> IF a.s = "" THEN b ELSE IF b.s = "" THEN a ELSE Str("<concatenated>")]
      [] IsArr(a) /\ IsArr(b) -> [exc |-> FALSE, v |-> Arr(a.a \o b.a)]
      [] OTHER -> [exc |-> TRUE, v |-> None]

\* a * b computed as a + b
PyMul_asSum(a, b) ==
    CASE IsNumeric(a) /\ IsNumeric(b) ->
           IF a.t = "nan" \/ b.t = "nan" THEN [exc |-> FALSE, v |-> NaN]
           ELSE [exc |-> FALSE, v |-> Num(NumericVal(a) + NumericVal(b))]
      [] OTHER -> [exc |-> TRUE, v |-> None]

\* a * b of Python: the product of two numbers, a string or a list repeated;
\* TypeError on every other pair
PyMul(a, b) ==
    CASE IsNumeric(a) /\ IsNumeric(b) ->
           IF a.t = "nan" \/ b.t = "nan" THEN [exc |-> FALSE, v |-> NaN]
           ELSE [exc |-> FALSE, v |-> Num(NumericVal(a) * NumericVal(b))]
      [] IsStr(a) /\ IsCount(b) -> [exc |-> FALSE, v |-> Str(RepeatStr(a.s, NumericVal(b)))]
      [] IsCount(a) /\ IsStr(b) -> [exc |-> FALSE, v |-> Str(RepeatStr(b.s, NumericVal(a)))]
      [] IsArr(a) /\ IsCount(b) -> [exc |-> FALSE, v |-> Arr(RepeatSeq(a.a, NumericVal(b)))]
      [] IsCount(a) /\ IsArr(b) -> [exc |-> FALSE, v |-> Arr(RepeatSeq(b.a, NumericVal(a)))]
      [] OTHER -> [exc |-> TRUE, v |-> None]

\* handle_tools_execute
handle_tools_execute(self, id, params) ==
    IF ~IsObj(params) THEN Raised(self)
    ELSE LET tool_id == PyGet(params, "id", None)
             args == PyGet(params, "args", Obj(EmptyDict))
         IN  IF ~Truthy(tool_id) THEN
                 Returned(self, create_error_response(id, -32602, "Tool not found: <id>"))
             ELSE IF ~Hashable(tool_id) THEN Raised(self)
             ELSE IF ~(IsStr(tool_id) /\ tool_id.s \in RegistryKeys(self.tools, "id")) THEN
                 Returned(self, create_error_response(id, -32602, "Tool not found: <id>"))
             ELSE LET tool == RegistryEntry(self.tools, "id", tool_id.s)
                      missing == FirstMissing(tool.args, args)
                  IN  IF ~Iterable(args) THEN Raised(self)
                      ELSE IF missing # 0 THEN
                          Returned(self, create_error_response(id, -32602,
                                             MissingMessage(tool.args[missing].name)))
                      ELSE IF ~IsObj(args) THEN Raised(self)
                      ELSE LET r == IF tool_id.s = "add"
                                    THEN PyAdd(args.f["a"], args.f["b"])
                                    ELSE IF tool_id.s = "multiply"
                                    THEN PyMul(args.f["a"], args.f["b"])
                                    ELSE [exc |-> FALSE, v |-> Str("Unknown tool")]
                           IN  IF r.exc THEN Raised(self)
                               ELSE Returned(self, result_response(id, Obj([result |-> r.v])))

(***************************************************************************)
(* SimpleMCPServer.handle_request and SimpleMCPServer.run.                 *)
(***************************************************************************)
\* the methods handle_request dispatches
KnownMethods ==
    {"initialize", "shutdown", "resources/list", "resources/get",
     "prompts/list", "prompts/execute", "tools/list", "tools/execute"}

\* the handler of a known method
Handler(self, method, id, params) ==
    CASE method = "initialize"      -> handle_initialize(self, id, params)
      [] method = "shutdown"        -> handle_shutdown(self, id, params)
      [] method = "resources/list"  -> handle_resources_list(self, id, params)
      [] method = "resources/get"   -> handle_resources_get(self, id, params)
      [] method = "prompts/list"    -> handle_prompts_list(self, id, params)
      [] method = "prompts/execute" -> handle_prompts_execute(self, id, params)
      [] method = "tools/list"      -> handle_tools_list(self, id, params)
      [] method = "tools/execute"   -> handle_tools_execute(self, id, params)

\* the `except Exception` clause with the code -32000
InternalError_serverError(self) ==
    Returned(self, create_error_response(None, -32000, "Internal error: <exception>"))

\* the `except Exception` clause with the read loop stopped
InternalError_stops(self) ==
    Returned([self EXCEPT !.running = FALSE],
             create_error_response(None, -32603, "Internal error: <exception>"))

\* the `except Exception` clause of handle_request
InternalError(self) ==
    Returned(self, create_error_response(None, -32603, "Internal error: <exception>"))

\* handle_request(request_str): the response line, the lines printed on the
\* way, and the server's state afterwards
handle_request(self, request_str) ==
    LET loaded == json_loads(request_str)
        request == loaded.v
        out ==
          IF loaded.exc = "JSONDecodeError" THEN
              Returned(self, create_error_response(None, -32700, "Parse error"))
          ELSE IF loaded.exc # "none" THEN InternalError(self)
          ELSE IF ~Iterable(request) THEN InternalError(self)
          ELSE IF ~PyIn("method", request) THEN
              IF IsObj(request)
              THEN Returned(self, create_error_response(PyGet(request, "id", None),
                                                        -32600, "Invalid Request"))
              ELSE InternalError(self)
          ELSE IF ~IsObj(request) THEN InternalError(self)
          ELSE LET method == request.f["method"]
                   params == PyGet(request, "params", Obj(EmptyDict))
               IN  IF "id" \notin DOMAIN request.f THEN InternalError(self)
                   ELSE IF IsStr(method) /\ method.s \in KnownMethods THEN
                       LET h == Handler(self, method.s, request.f["id"], params)
                       IN  IF h.exc THEN InternalError(h.self) ELSE h
                   ELSE Returned(self, create_error_response(request.f["id"], -32601,
                                                             "Method not found: <method>"))
    IN  [response_str |-> json_dumps(out.resp), prints |-> out.prints, self |-> out.self]

(***************************************************************************)
(* MCPClientSimulator: the state after construction, and its requests.     *)
(***************************************************************************)
\* self.capabilities of the client
ClientCapabilities ==
    Obj([resources |-> Obj(EmptyDict), prompts |-> Obj(EmptyDict),
         tools |-> Obj(EmptyDict), sampling |-> Obj(EmptyDict)])

\* MCPClientSimulator.__init__ (transport "stdio"); opened tells whether
\* connect() has created self.reader and self.writer; server_capabilities is
\* set by initialize()
ClientInit ==
    [request_id          |-> 0,
     connected           |-> FALSE,
     capabilities        |-> ClientCapabilities,
     opened              |-> FALSE,
     server_capabilities |-> None]

\* next_id with `self.request_id = 1` in place of the increment
next_id_stuck(self) == [self EXCEPT !.request_id = 1]

\* next_id: the client after the increment; the id returned is its request_id
next_id(self) == [self EXCEPT !.request_id = self.request_id + 1]

\* the API methods of the client
ApiMethods ==
    {"connect", "initialize", "list_resources", "get_resource", "list_prompts",
     "execute_prompt", "list_tools", "execute_tool", "shutdown"}

\* the method name an API method puts in its request
WireMethod(api) ==
    CASE api = "connect"        -> "initialize"
      [] api = "initialize"     -> "initialize"
      [] api = "list_resources" -> "resources/list"
      [] api = "get_resource"   -> "resources/get"
      [] api = "list_prompts"   -> "prompts/list"
      [] api = "execute_prompt" -> "prompts/execute"
      [] api = "list_tools"     -> "tools/list"
      [] api = "execute_tool"   -> "tools/execute"
      [] api = "shutdown"       -> "shutdown"

\* the arguments the callers of the model pass: a[1] is uri or id, a[2] is
\* args (None when the method takes none)
NoArgs == <<None, None>>
CallArgs(api) ==
    CASE api = "get_resource"   -> { <<Str("sample_text"), None>>, <<Str("missing"), None>> }
      [] api = "execute_prompt" -> { <<Str("echo"), Obj([text |-> Str("ab")])>>,
                                     <<Str("echo"), Obj([text |-> Str(LongText)])>>,
                                     <<Str("reverse"), None>> }
      [] api = "execute_tool"   -> { <<Str("add"), Obj([a |-> Num(2), b |-> Num(3)])>>,
                                     <<Str("add"), Obj([a |-> Num(2)])>> }
      [] OTHER                  -> { NoArgs }

\* the params of the request an API method builds
RequestParams(self, api, a) ==
    CASE api \in {"connect", "initialize"} ->
           Obj([capabilities |-> self.capabilities,
                clientInfo   |-> Obj([name    |-> Str("MCP Client Simulator"),
                                      version |-> Str("1.0.0")])])
      [] api = "get_resource" -> Obj([uri |-> a[1]])
      [] api \in {"execute_prompt", "execute_tool"} ->
           Obj([id |-> a[1], args |-> IF Truthy(a[2]) THEN a[2] ELSE Obj(EmptyDict)])
      [] OTHER -> Obj(EmptyDict)

\* the request an API method builds, with the id next_id returned
BuildRequest(self, api, a, id) ==
    Obj([jsonrpc |-> Str("2.0"),
         id      |-> Num(id),
         method  |-> Str(WireMethod(api)),
         params  |-> RequestParams(self, api, a)])

\* what an API method returns when the client is not connected
DefaultReturn(api) ==
    IF api \in {"list_resources", "list_prompts", "list_tools"} THEN Arr(<<>>) ELSE None

\* the member of the result a list method returns ("" when the method
\* returns the whole result)
ResultKey(api) ==
    CASE api = "list_resources" -> "resources"
      [] api = "list_prompts"   -> "prompts"
      [] api = "list_tools"     -> "tools"
      [] OTHER -> ""

\* len(x) is defined
Sized(v) == v.t \in {"arr", "obj", "str"}

\* initialize() with `if response:` in place of
\* `if response and "result" in response:`
initialize_after_any(self, response) ==
    IF ~Truthy(response) THEN [kind |-> "return", val |-> Bool(FALSE), self |-> self]
    ELSE [kind |-> "return", val |-> Bool(TRUE),
          self |-> [self EXCEPT !.server_capabilities = None, !.connected = TRUE]]

\* initialize() after `response = await self.send_request(...)`: the client
\* becomes connected when the response is a dict with a result that has
\* capabilities; gives the outcome for the caller and the client after
initialize_after(self, response) ==
    LET ret(v) == [kind |-> "return", val |-> v, self |-> self]
        raise(e) == [kind |-> "raise", val |-> Str(e), self |-> self]
    IN  IF ~Truthy(response) THEN ret(Bool(FALSE))
        ELSE IF ~Iterable(response) THEN raise("TypeError")
        ELSE IF ~PyIn("result", response) THEN ret(Bool(FALSE))
        ELSE IF ~IsObj(response) THEN raise("TypeError")
        ELSE LET result == response.f["result"]
             IN  IF ~IsObj(result) THEN raise("TypeError")
                 ELSE IF "capabilities" \notin DOMAIN result.f THEN raise("KeyError")
                 ELSE [kind |-> "return", val |-> Bool(TRUE),
                       self |-> [self EXCEPT !.server_capabilities = result.f["capabilities"],
                                             !.connected = TRUE]]

\* shutdown() without `self.connected = False`
shutdown_after_keepsConnected(self) ==
    [kind |-> "return", val |-> None, self |-> self]

\* shutdown() after `await self.send_request(request)`: whatever came back,
\* the client is no longer connected
shutdown_after(self) ==
    [kind |-> "return", val |-> None, self |-> [self EXCEPT !.connected = FALSE]]

\* The part of an API method after `response = await self.send_request(...)`:
\* response is what send_request returned (None after a closed stream or an
\* undecodable line).  Gives the outcome for the caller and the client after.
AfterResponse(self, api, response) ==
    LET ret(v) == [kind |-> "return", val |-> v, self |-> self]
        raise(e) == [kind |-> "raise", val |-> Str(e), self |-> self]
        key == ResultKey(api)
        out ==
          IF api = "shutdown" THEN shutdown_after(self)
          ELSE IF api \in {"connect", "initialize"} THEN initialize_after(self, response)
          ELSE IF ~Truthy(response) THEN ret(DefaultReturn(api))
          ELSE IF ~Iterable(response) THEN raise("TypeError")
          ELSE IF ~PyIn("result", response) THEN ret(DefaultReturn(api))
          ELSE IF ~IsObj(response) THEN raise("TypeError")
          ELSE LET result == response.f["result"]
               IN  IF key = "" THEN ret(result)
                   ELSE IF ~IsObj(result) THEN raise("TypeError")
                   ELSE IF key \notin DOMAIN result.f THEN raise("KeyError")
                   ELSE IF ~Sized(result.f[key]) THEN raise("TypeError")
                   ELSE ret(result.f[key])
    IN  \* connect() discards what initialize() returned
        IF api = "connect" /\ out.kind = "return" THEN [out EXCEPT !.val = None] ELSE out

\* The part of send_request after `response_line = await self.reader.readline()`:
\* None for an empty read (end of stream) and for a line json.loads rejects
\* with JSONDecodeError, the decoded value otherwise.
DecodeResponse(eof, line) ==
    IF eof THEN [sr |-> "None:eof", exc |-> "none", response |-> None]
    ELSE LET loaded == json_loads(line)
         IN  IF loaded.exc = "JSONDecodeError"
             THEN [sr |-> "None:decode", exc |-> "none", response |-> None]
             ELSE IF loaded.exc # "none"
             THEN [sr |-> "raise", exc |-> loaded.exc, response |-> None]
             ELSE [sr |-> "response", exc |-> "none", response |-> loaded.v]

(***************************************************************************)
(* The state: one server process, one client process, the two pipes that   *)
(* join their standard streams, and what the callers have observed.        *)
(***************************************************************************)
VARIABLES
    server,   \* the attributes of the SimpleMCPServer object
    spc,      \* where run() is: "init", "loop" (blocked in input()), "stopped", "crashed"
    c2s,      \* lines written by the client, not yet read by the server
    s2c,      \* lines written by the server, still in the pipe
    client,   \* the attributes of the MCPClientSimulator object
    co,       \* per client coroutine: where its API call is
    rbuf,     \* lines in the buffer of self.reader
    reof,     \* self.reader has been fed the end of the stream
    exited,   \* the client process has ended (both its pipe ends are closed)
    eofIn,    \* the write end of the server's standard input is closed
    allocated,\* history: the ids next_id returned, in order
    sent,     \* history: the ids of the requests the client wrote, in order
    lastSent, \* history: the last request the client wrote
    last,     \* history: the outcome of the last API call that completed, and
              \* whether a shutdown() of a connected client has returned so far
    handled,  \* history: the last line handle_request was given, its response,
              \* the error code of the response before it (0 when not an error),
              \* the first response to initialize the server returned, and the
              \* uris of the first and of the latest later result of
              \* resources/list (a sequence of 0, 1 or 2 sets)
    nread,    \* history: number of lines run() has read
    nwritten, \* history: number of lines the server has written to its output
    fed,      \* number of lines the environment has supplied so far
    aggregator, \* the attributes of the LogAggregator object
    added,    \* history: the entries add_log appended, in order
    env,      \* the attributes of the MCPTestingEnvironment object
    os,       \* the processes that have not ended, of those a handle refers to
    tasks,    \* per request handler of the environment: where its call is
    envLast   \* history: the last call of the environment that returned, the
              \* value it returned and the last message it logged

vars == <<server, spc, c2s, s2c, client, co, rbuf, reof, exited, eofIn,
          allocated, sent, lastSent, last, handled, nread, nwritten, fed,
          aggregator, added, env, os, tasks, envLast>>

\* the variables of the objects that are not part of the protocol engine
aggVars == <<aggregator, added>>
envVars == <<env, os, tasks, envLast>>
toolVars == <<aggVars, envVars>>

serverVars == <<server, spc, handled, nread, nwritten>>
clientVars == <<client, co, rbuf, reof, allocated, sent, lastSent, last>>

Callers == 1..NumCallers

NoLine == [k |-> "none"]
Idle == [pc |-> "idle", api |-> "none", req |-> 0, conn0 |-> FALSE]
NoCall == [api |-> "none", req |-> 0, sr |-> "none", line |-> NoLine,
           kind |-> "none", val |-> None, conn0 |-> FALSE, closed |-> FALSE]
NothingSent == [id |-> 0, method |-> "none", conn |-> FALSE, pending |-> 0]
NotHandled == [request_str |-> NoLine, response_str |-> NoLine, prints |-> 0,
               prevcode |-> 0, first |-> NoLine, listed |-> <<>>]

\* LogAggregator.__init__ without a configuration file
AggregatorInit == [logs |-> <<>>, max_logs |-> MaxLogs]

\* the state of the objects that are not part of the protocol engine, after
\* construction
\* the components in the order of the dict self.components
ComponentNames == <<"mcp_client", "log_aggregator", "docker_manager", "webui_tester">>
Components == { ComponentNames[i] : i \in DOMAIN ComponentNames }
ComponentPort(c) ==
    CASE c = "mcp_client" -> 8079 [] c = "log_aggregator" -> 8080
      [] c = "docker_manager" -> 8081 [] c = "webui_tester" -> 8082

\* MCPTestingEnvironment.__init__ without a configuration file; process 0
\* is None, a positive process is the handle of a process Popen created
EnvironmentInit ==
    [components |-> [c \in Components |->
        [running |-> FALSE, port |-> ComponentPort(c), process |-> 0]]]

Tasks == 1..NumTasks
IdleTask == [pc |-> "idle", op |-> "none", component |-> "none", process |-> 0]
NoEnvCall == [op |-> "none", component |-> "none", ret |-> None, log |-> "none",
              tick |-> FALSE]

ToolInit ==
    /\ aggregator = AggregatorInit
    /\ added = <<>>
    /\ env = EnvironmentInit
    /\ os = [alive |-> {}]
    /\ tasks = [t \in Tasks |-> IdleTask]
    /\ envLast = NoEnvCall

\* the state after both objects are constructed and the pipes are set up
Init ==
    /\ server = ServerInit
    /\ spc = "init"
    /\ c2s = <<>>
    /\ s2c = <<>>
    /\ client = ClientInit
    /\ co = [c \in Callers |-> Idle]
    /\ rbuf = <<>>
    /\ reof = FALSE
    /\ exited = FALSE
    /\ eofIn = FALSE
    /\ allocated = <<>>
    /\ sent = <<>>
    /\ lastSent = NothingSent
    /\ last = NoCall
    /\ handled = NotHandled
    /\ nread = 0
    /\ nwritten = 0
    /\ fed = 0
    /\ ToolInit

(***************************************************************************)
(* SimpleMCPServer.run, one action per stretch between two blocking reads. *)
(***************************************************************************)
\* the server's standard output has lost its reader
OutputBroken == exited

\* a response line is the result of handle_initialize (no other result has
\* a serverInfo member)
InitializeResult(line) ==
    /\ line.k = "json"
    /\ "result" \in DOMAIN line.v.f
    /\ IsObj(line.v.f["result"])
    /\ "serverInfo" \in DOMAIN line.v.f["result"].f

\* a response line is the result of handle_resources_list
ResourcesListResult(line) ==
    /\ line.k = "json"
    /\ "result" \in DOMAIN line.v.f
    /\ IsObj(line.v.f["result"])
    /\ "resources" \in DOMAIN line.v.f["result"].f

\* the set of uris in the result of handle_resources_list
UriSet(line) ==
    LET resources == line.v.f["result"].f["resources"].a
    IN  { resources[i].f["uri"] : i \in DOMAIN resources }

\* the code of the error member of a response line, 0 when it has none
ErrorCodeOf(line) ==
    IF line.k = "json" /\ IsObj(line.v) /\ "error" \in DOMAIN line.v.f
    THEN line.v.f["error"].f["code"].n
    ELSE 0

\* print(...) of a sequence of lines
ServerPrint(lines) ==
    /\ s2c' = IF OutputBroken THEN s2c ELSE s2c \o lines
    /\ nwritten' = nwritten + Len(lines)

\* run(), up to the first input(): prints the two start-up lines
ServerStart ==
    /\ spc = "init"
    /\ ServerPrint(<<Text("Simple MCP Server started"), Text("Waiting for requests...")>>)
    /\ spc' = IF server.running THEN "loop" ELSE "stopped"
    /\ UNCHANGED <<server, c2s, handled, nread, fed>>
    /\ UNCHANGED <<clientVars, exited, eofIn>>
    /\ UNCHANGED toolVars

\* run(): input() returns a line; the line is handled and the response is
\* printed and flushed; when running has become false the loop is left and
\* the stop line is printed.  A flush into a pipe without reader raises
\* BrokenPipeError, the except clause prints again, and run() is left by
\* that second exception.
ServerHandleLine ==
    /\ spc = "loop"
    /\ c2s # <<>>
    /\ LET request_str == Head(c2s)
           h == handle_request(server, request_str)
       IN  /\ c2s' = Tail(c2s)
           /\ nread' = nread + 1
           /\ server' = h.self
           /\ handled' = [request_str |-> request_str, response_str |-> h.response_str,
                          prints |-> Len(h.prints),
                          prevcode |-> ErrorCodeOf(handled.response_str),
                          first |-> IF handled.first = NoLine /\ InitializeResult(h.response_str)
                                    THEN h.response_str ELSE handled.first,
                          listed |-> IF ~ResourcesListResult(h.response_str)
                                     THEN handled.listed
                                     ELSE IF handled.listed = <<>>
                                     THEN <<UriSet(h.response_str)>>
                                     ELSE <<handled.listed[1], UriSet(h.response_str)>>]
           /\ IF OutputBroken
              THEN /\ spc' = "crashed"
                   /\ UNCHANGED <<s2c, nwritten>>
              ELSE IF h.self.running
              THEN /\ spc' = "loop"
                   /\ ServerPrint(h.prints \o <<h.response_str>>)
              ELSE /\ spc' = "stopped"
                   /\ ServerPrint(h.prints \o <<h.response_str,
                                                Text("Simple MCP Server stopped")>>)
    /\ UNCHANGED <<clientVars, exited, eofIn, fed>>
    /\ UNCHANGED toolVars

\* run(): input() raises EOFError; the loop is left and the stop line is
\* printed
ServerEOF ==
    /\ spc = "loop"
    /\ c2s = <<>>
    /\ eofIn
    /\ spc' = "stopped"
    /\ ServerPrint(<<Text("Simple MCP Server stopped")>>)
    /\ UNCHANGED <<server, c2s, handled, nread, fed>>
    /\ UNCHANGED <<clientVars, exited, eofIn>>
    /\ UNCHANGED toolVars

\* the server process has ended: its pipe ends are closed
ServerGone == spc \in {"stopped", "crashed"}

(***************************************************************************)
(* MCPClientSimulator: the API methods, send_request, and the event loop.  *)
(***************************************************************************)
\* number of calls suspended in send_request
Pending == Cardinality({ d \in Callers : co[d].pc # "idle" })

\* the record of a completed call; closed tells that a shutdown() called on
\* a connected client has returned, in this call or in an earlier one
Outcome(api, id, sr, line, kind, val, conn0) ==
    [api |-> api, req |-> id, sr |-> sr, line |-> line,
     kind |-> kind, val |-> val, conn0 |-> conn0,
     closed |-> last.closed \/ (api = "shutdown" /\ kind = "return" /\ conn0)]

\* send_request from the return of readline to the return of the API
\* method: the line (or the end of the stream) is decoded and handed to the
\* rest of the API method; self1 is the client at that point
Finish(c, api, id, conn0, self1, eof, line) ==
    LET dec == DecodeResponse(eof, line)
        out == AfterResponse(self1, api, dec.response)
    IN  /\ client' = IF dec.sr = "raise" THEN self1 ELSE out.self
        /\ last' = IF dec.sr = "raise"
                   THEN Outcome(api, id, "raise", line, "raise", Str(dec.exc), conn0)
                   ELSE Outcome(api, id, dec.sr, line, out.kind, out.val, conn0)
        /\ co' = [co EXCEPT ![c] = Idle]

\* the call ends by an exception raised inside send_request
FailCall(c, api, id, conn0, self1, exc) ==
    /\ client' = self1
    /\ last' = Outcome(api, id, "raise", NoLine, "raise", Str(exc), conn0)
    /\ co' = [co EXCEPT ![c] = Idle]

\* `await self.reader.readline()` on the buffer rb: a buffered line is
\* returned at once, so is the end of the stream; with an empty buffer the
\* coroutine becomes the waiter of the reader, unless the reader has a waiter
\* already (RuntimeError).  A buffered line longer than the limit of the
\* reader is dropped from the buffer and readline raises ValueError.
Readline(c, api, id, conn0, self1, rb, eof) ==
    IF rb # <<>> /\ LimitOverrun(Head(rb)) THEN
        /\ client' = self1
        /\ last' = Outcome(api, id, "raise", Head(rb), "raise", Str("ValueError"), conn0)
        /\ co' = [co EXCEPT ![c] = Idle]
        /\ rbuf' = Tail(rb)
    ELSE IF rb # <<>> THEN
        /\ Finish(c, api, id, conn0, self1, FALSE, Head(rb))
        /\ rbuf' = Tail(rb)
    ELSE IF eof THEN
        /\ Finish(c, api, id, conn0, self1, TRUE, NoLine)
        /\ rbuf' = rb
    ELSE IF \E d \in Callers \ {c} : co[d].pc = "waiting" THEN
        /\ FailCall(c, api, id, conn0, self1, "RuntimeError")
        /\ rbuf' = rb
    ELSE
        /\ client' = self1
        /\ co' = [co EXCEPT ![c] = [pc |-> "waiting", api |-> api, req |-> id,
                                    conn0 |-> conn0]]
        /\ rbuf' = rb
        /\ UNCHANGED last

\* the guard with shutdown() left without it
NotConnectedGuard_noShutdown(self, api) ==
    api \notin {"connect", "initialize", "shutdown"} /\ ~self.connected

\* the guard `if not self.connected:` at the head of every API method except
\* connect() and initialize()
NotConnectedGuard(self, api) ==
    api \notin {"connect", "initialize"} /\ ~self.connected

\* the write with a second write of the same line after it
writer_write_again(pipe, line) == Append(Append(pipe, line), line)

\* self.writer.write(...) in send_request: one line is added to what was
\* written
writer_write(pipe, line) == Append(pipe, line)

\* the cap on the ids of the run
IdCap == IF spc = "peer" THEN MaxPeerId ELSE IF spc = "script" THEN MaxScriptId ELSE MaxId

\* An API method, from its call to its first suspension (or to its return).
\* connect() creates a fresh reader and writer and then runs initialize();
\* the other methods except initialize() return their default when the
\* client is not connected; then the id is allocated, the request is built
\* and send_request writes it and reads a line.
ApiCall(c, api, a) ==
    /\ ~exited
    /\ co[c].pc = "idle"
    /\ api = "connect" => \A d \in Callers : co[d].pc = "idle"
    /\ IF NotConnectedGuard(client, api)
       THEN /\ last' = Outcome(api, 0, "notsent", NoLine, "return", DefaultReturn(api),
                               client.connected)
            /\ UNCHANGED <<client, co, rbuf, reof, allocated, sent, lastSent, c2s>>
       ELSE /\ client.request_id < IdCap
            /\ LET conn0 == client.connected
                   self1 == next_id([client EXCEPT !.opened = @ \/ api = "connect"])
                   id == self1.request_id
                   request == BuildRequest(self1, api, a, id)
                   rb == IF api = "connect" THEN <<>> ELSE rbuf
                   eof == IF api = "connect" THEN FALSE ELSE reof
               IN  /\ reof' = eof
                   /\ allocated' = Append(allocated, id)
                   /\ IF ~self1.opened THEN
                          \* self.writer does not exist
                          /\ FailCall(c, api, id, conn0, self1, "AttributeError")
                          /\ rbuf' = rb
                          /\ UNCHANGED <<sent, lastSent, c2s>>
                      ELSE IF ServerGone THEN
                          \* the write fails and drain() raises
                          /\ FailCall(c, api, id, conn0, self1, "ConnectionResetError")
                          /\ rbuf' = rb
                          /\ UNCHANGED <<sent, lastSent, c2s>>
                      ELSE
                          \* (the scripted peer reads a line as it is written)
                          /\ c2s' = IF spc \in {"peer", "script"} THEN <<>>
                                    ELSE writer_write(c2s, json_dumps(request))
                          /\ sent' = writer_write(sent, id)
                          /\ lastSent' = [id |-> id, method |-> WireMethod(api),
                                          conn |-> conn0, pending |-> Pending]
                          /\ Readline(c, api, id, conn0, self1, rb, eof)
    /\ UNCHANGED <<serverVars, s2c, exited, eofIn, fed>>
    /\ UNCHANGED toolVars

connect(c) == \E a \in CallArgs("connect") : ApiCall(c, "connect", a)
initialize(c) == \E a \in CallArgs("initialize") : ApiCall(c, "initialize", a)
list_resources(c) == \E a \in CallArgs("list_resources") : ApiCall(c, "list_resources", a)
get_resource(c) == \E a \in CallArgs("get_resource") : ApiCall(c, "get_resource", a)
list_prompts(c) == \E a \in CallArgs("list_prompts") : ApiCall(c, "list_prompts", a)
execute_prompt(c) == \E a \in CallArgs("execute_prompt") : ApiCall(c, "execute_prompt", a)
list_tools(c) == \E a \in CallArgs("list_tools") : ApiCall(c, "list_tools", a)
execute_tool(c) == \E a \in CallArgs("execute_tool") : ApiCall(c, "execute_tool", a)
shutdown(c) == \E a \in CallArgs("shutdown") : ApiCall(c, "shutdown", a)

\* The event loop reads the client's standard input: what the pipe holds is
\* fed to self.reader, and the end of the stream once the server is gone and
\* the pipe is empty; the waiter of the reader is woken.
FeedData ==
    /\ ~exited
    /\ client.opened
    /\ s2c # <<>> \/ (ServerGone /\ ~reof)
    /\ rbuf' = rbuf \o s2c
    /\ s2c' = <<>>
    /\ reof' = (reof \/ ServerGone)
    /\ co' = [c \in Callers |-> IF co[c].pc = "waiting"
                                THEN [co[c] EXCEPT !.pc = "woken"] ELSE co[c]]
    /\ UNCHANGED <<client, allocated, sent, lastSent, last, c2s, exited, eofIn, fed>>
    /\ UNCHANGED serverVars
    /\ UNCHANGED toolVars

\* A woken coroutine goes on in readline: it takes the first buffered line,
\* or the end of the stream; when another coroutine has emptied the buffer
\* in between it waits again.
Resume(c) ==
    /\ ~exited
    /\ co[c].pc = "woken"
    /\ Readline(c, co[c].api, co[c].req, co[c].conn0, client, rbuf, reof)
    /\ UNCHANGED <<reof, allocated, sent, lastSent, c2s, s2c, exited, eofIn, fed>>
    /\ UNCHANGED serverVars
    /\ UNCHANGED toolVars

\* the client process ends (main() returns): its pipe ends are closed
ClientExit ==
    /\ ~exited
    /\ \A c \in Callers : co[c].pc = "idle"
    /\ exited' = TRUE
    /\ eofIn' = TRUE
    /\ UNCHANGED <<clientVars, serverVars, c2s, s2c, fed>>
    /\ UNCHANGED toolVars

(***************************************************************************)
(* The client run against the server: main() of the client drives one      *)
(* coroutine, which calls the API methods one after the other.             *)
(***************************************************************************)
MainCaller == 1

ServerNext == ServerStart \/ ServerHandleLine \/ ServerEOF

ClientNext ==
    \/ connect(MainCaller)
    \/ initialize(MainCaller)
    \/ list_resources(MainCaller)
    \/ get_resource(MainCaller)
    \/ list_prompts(MainCaller)
    \/ execute_prompt(MainCaller)
    \/ list_tools(MainCaller)
    \/ execute_tool(MainCaller)
    \/ shutdown(MainCaller)
    \/ Resume(MainCaller)
    \/ FeedData

Next == ServerNext \/ ClientNext \/ ClientExit

Spec == Init /\ [][Next]_vars

\* The same run under fairness: run() goes on whenever it can (it is the
\* only thread of the server process), the client's event loop goes on
\* whenever it can, and main() of the client comes to its end, which closes
\* the server's standard input.
FairSpec ==
    /\ Init /\ [][Next]_vars
    /\ WF_vars(ServerNext)
    /\ WF_vars(FeedData \/ Resume(MainCaller))
    /\ SF_vars(ClientExit)

(***************************************************************************)
(* The client run against a scripted peer: any line of PeerAlphabet may    *)
(* arrive on the client's standard input at any time, and the stream may   *)
(* be closed; several coroutines call the API of the one client object.    *)
(***************************************************************************)
ServerInfo == Obj([name |-> Str("Simple MCP Server"), version |-> Str("1.0.0")])
ErrorMember == Obj([code |-> Num(-32601), message |-> Str("Method not found: <method>")])

PeerAlphabet ==
    { Text("garbage"),
      json_dumps(Num(5)),
      json_dumps(Obj([jsonrpc |-> Str("2.0"), id |-> Num(1)])),
      json_dumps(result_response(Num(1), Obj([capabilities |-> ServerCapabilities,
                                              serverInfo |-> ServerInfo]))),
      json_dumps(result_response(Num(2), Obj([capabilities |-> ServerCapabilities,
                                              serverInfo |-> ServerInfo]))),
      json_dumps(result_response(Num(1), Obj([capabilities |-> ServerCapabilities]))),
      json_dumps(result_response(Num(2), Obj(EmptyDict))),
      json_dumps(create_error_response(Num(1), -32601, "Method not found: <method>")),
      json_dumps(Obj([jsonrpc |-> Str("2.0"), id |-> Num(1),
                      result |-> Obj([capabilities |-> ServerCapabilities,
                                      serverInfo |-> ServerInfo]),
                      error |-> ErrorMember])) }

InitPeer ==
    /\ server = ServerInit
    /\ spc = "peer"
    /\ c2s = <<>> /\ s2c = <<>>
    /\ client = ClientInit
    /\ co = [c \in Callers |-> Idle]
    /\ rbuf = <<>> /\ reof = FALSE /\ exited = FALSE /\ eofIn = FALSE
    /\ allocated = <<>> /\ sent = <<>> /\ lastSent = NothingSent /\ last = NoCall
    /\ handled = NotHandled /\ nread = 0 /\ nwritten = 0 /\ fed = 0
    /\ ToolInit

\* the peer reads what the client wrote and writes one line
PeerLine ==
    /\ spc = "peer"
    /\ fed < MaxPeerLines
    /\ \E line \in PeerAlphabet : s2c' = Append(s2c, line)
    /\ c2s' = <<>>
    /\ fed' = fed + 1
    /\ UNCHANGED <<clientVars, server, spc, handled, nread, nwritten, exited, eofIn>>
    /\ UNCHANGED toolVars

\* the peer ends: the client's standard input reaches its end
PeerClose ==
    /\ spc = "peer"
    /\ spc' = "stopped"
    /\ UNCHANGED <<clientVars, server, handled, nread, nwritten, c2s, s2c, exited, eofIn, fed>>
    /\ UNCHANGED toolVars

\* the coroutines are interchangeable: a new call is made by the first one
\* that is not inside a call
Free(c) == co[c].pc = "idle" /\ \A d \in 1..(c - 1) : co[d].pc # "idle"

CallersNext ==
    \/ \E c \in Callers : Free(c) /\ connect(c)
    \/ \E c \in Callers : Free(c) /\ initialize(c)
    \/ \E c \in Callers : Free(c) /\ list_resources(c)
    \/ \E c \in Callers : Free(c) /\ get_resource(c)
    \/ \E c \in Callers : Free(c) /\ list_prompts(c)
    \/ \E c \in Callers : Free(c) /\ execute_prompt(c)
    \/ \E c \in Callers : Free(c) /\ list_tools(c)
    \/ \E c \in Callers : Free(c) /\ execute_tool(c)
    \/ \E c \in Callers : Free(c) /\ shutdown(c)
    \/ \E c \in Callers : Resume(c)
    \/ FeedData

NextPeer == CallersNext \/ PeerLine \/ PeerClose

SpecClient == InitPeer /\ [][NextPeer]_vars

(***************************************************************************)
(* The client's one caller run against the scripted peer: main() calls the *)
(* API methods one after the other, any line of ScriptAlphabet may arrive, *)
(* and the stream may be closed.                                           *)
(***************************************************************************)
ScriptAlphabet ==
    { Text("garbage"),
      json_dumps(result_response(Num(1), Obj([capabilities |-> ServerCapabilities,
                                              serverInfo |-> ServerInfo]))),
      json_dumps(create_error_response(Num(1), -32601, "Method not found: <method>")) }

InitScript ==
    /\ server = ServerInit
    /\ spc = "script"
    /\ c2s = <<>> /\ s2c = <<>>
    /\ client = ClientInit
    /\ co = [c \in Callers |-> Idle]
    /\ rbuf = <<>> /\ reof = FALSE /\ exited = FALSE /\ eofIn = FALSE
    /\ allocated = <<>> /\ sent = <<>> /\ lastSent = NothingSent /\ last = NoCall
    /\ handled = NotHandled /\ nread = 0 /\ nwritten = 0 /\ fed = 0
    /\ ToolInit

\* the peer reads what the client wrote and writes one line
ScriptLine ==
    /\ spc = "script"
    /\ fed < MaxScriptLines
    /\ \E line \in ScriptAlphabet : s2c' = Append(s2c, line)
    /\ c2s' = <<>>
    /\ fed' = fed + 1
    /\ UNCHANGED <<clientVars, server, spc, handled, nread, nwritten, exited, eofIn>>
    /\ UNCHANGED toolVars

\* the peer ends: the client's standard input reaches its end
ScriptClose ==
    /\ spc = "script"
    /\ spc' = "stopped"
    /\ UNCHANGED <<clientVars, server, handled, nread, nwritten, c2s, s2c, exited, eofIn, fed>>
    /\ UNCHANGED toolVars

NextScript == ClientNext \/ ScriptLine \/ ScriptClose

SpecScript == InitScript /\ [][NextScript]_vars

(***************************************************************************)
(* The server run alone: a line feeder writes lines of FeederAlphabet to   *)
(* its standard input, one when the last one has been read, reads its      *)
(* output, and may close the input.                                        *)
(***************************************************************************)
Request(id, method, params) ==
    Obj([jsonrpc |-> Str("2.0"), id |-> id, method |-> Str(method), params |-> params])

FeederAlphabet ==
    { Text(""),
      Text("garbage"),
      DeepLine,
      json_dumps(NaN),
      json_dumps(Num(5)),
      json_dumps(None),
      json_dumps(Str("hello")),
      json_dumps(Arr(<<Num(1)>>)),
      json_dumps(Obj(EmptyDict)),
      json_dumps(Obj([id |-> Num(7)])),
      json_dumps(Request(Num(1), "initialize",
                         Obj([capabilities |-> ClientCapabilities,
                              clientInfo |-> Obj([name |-> Str("MCP Client Simulator"),
                                                  version |-> Str("1.0.0")])]))),
      json_dumps(Obj([id |-> Num(9), method |-> Str("initialize")])),
      json_dumps(Request(Num(1), "initialize", Num(5))),
      json_dumps(Obj([id |-> Num(2), method |-> Str("shutdown")])),
      json_dumps(Obj([method |-> Str("shutdown")])),
      json_dumps(Obj([id |-> Num(3), method |-> Str("nonexistent")])),
      json_dumps(Request(Num(3), "nonexistent", Obj([x |-> Num(1)]))),
      json_dumps(Obj([id |-> Str("r1"), method |-> Num(5), params |-> Arr(<<>>)])),
      json_dumps(Obj([method |-> Str("nonexistent")])),
      json_dumps(Request(Num(1), "resources/list", NaN)),
      json_dumps(Request(Num(1), "resources/list", Obj(EmptyDict))),
      json_dumps(Obj([id |-> Num(8), method |-> Str("resources/list")])),
      json_dumps(Request(Num(4), "resources/get", Obj([uri |-> Str("sample_text")]))),
      json_dumps(Obj([id |-> Num(4), method |-> Str("resources/get")])),
      json_dumps(Request(Num(4), "resources/get", Arr(<<>>))),
      json_dumps(Request(Num(6), "prompts/execute", Obj([args |-> Obj([text |-> Str("ab")])]))),
      json_dumps(Request(Num(2), "tools/execute", Obj([id |-> Str("add"), args |-> Num(5)]))),
      json_dumps(Request(Num(1), "tools/execute",
                         Obj([id |-> Str("add"), args |-> Obj([a |-> Num(2), b |-> Str("x")])]))),
      json_dumps(Request(Num(3), "tools/execute",
                         Obj([id |-> Str("add"), args |-> Obj([a |-> Str("ab"), b |-> Str("ab")])]))),
      json_dumps(Request(Num(6), "prompts/execute",
                         Obj([id |-> Str("echo"), args |-> Obj([text |-> Num(5)])]))),
      json_dumps(Request(Num(6), "prompts/execute",
                         Obj([id |-> Str("reverse"), args |-> Obj([text |-> Num(5)])]))),
      json_dumps(Request(Num(6), "prompts/execute",
                         Obj([id |-> Arr(<<Str("echo")>>), args |-> Obj([text |-> Str("ab")])]))),
      json_dumps(Request(Num(4), "resources/get", Obj([uri |-> Str("")]))),
      json_dumps(Request(Num(2), "tools/execute", Obj([id |-> Str("subtract")]))),
      json_dumps(Request(Num(2), "tools/execute",
                         Obj([id |-> Str("add"), args |-> Obj(EmptyDict)]))),
      json_dumps(Request(Num(5), "tools/execute", Obj([id |-> Str("multiply")]))),
      json_dumps(Request(Num(5), "prompts/list", Obj(EmptyDict))),
      json_dumps(Request(Num(6), "prompts/execute",
                         Obj([id |-> Str("reverse"), args |-> Obj([text |-> Str("ab")])]))),
      json_dumps(Request(Num(7), "tools/list", Obj(EmptyDict))),
      json_dumps(Request(Num(1), "tools/execute",
                         Obj([id |-> Str("add"), args |-> Obj([a |-> Num(2), b |-> Num(3)])]))),
      json_dumps(Request(Num(2), "tools/execute",
                         Obj([id |-> Str("add"), args |-> Obj([a |-> Num(2)])]))) }

InitFeeder ==
    /\ server = ServerInit
    /\ spc = "init"
    /\ c2s = <<>> /\ s2c = <<>>
    /\ client = ClientInit
    /\ co = [c \in Callers |-> Idle]
    /\ rbuf = <<>> /\ reof = FALSE /\ exited = FALSE /\ eofIn = FALSE
    /\ allocated = <<>> /\ sent = <<>> /\ lastSent = NothingSent /\ last = NoCall
    /\ handled = NotHandled /\ nread = 0 /\ nwritten = 0 /\ fed = 0
    /\ ToolInit

\* the feeder reads what the server wrote and writes one line
FeedLine ==
    /\ ~eofIn
    /\ fed < MaxLines
    /\ c2s = <<>>
    /\ \E line \in FeederAlphabet : c2s' = <<line>>
    /\ s2c' = <<>>
    /\ fed' = fed + 1
    /\ UNCHANGED <<clientVars, serverVars, exited, eofIn>>
    /\ UNCHANGED toolVars

\* the feeder closes the server's standard input
FeederClose ==
    /\ ~eofIn
    /\ eofIn' = TRUE
    /\ UNCHANGED <<clientVars, serverVars, c2s, s2c, exited, fed>>
    /\ UNCHANGED toolVars

NextFeeder == ServerNext \/ FeedLine \/ FeederClose

SpecServer == InitFeeder /\ [][NextFeeder]_vars

(***************************************************************************)
(* The server run alone on arithmetic: the feeder writes tools/execute     *)
(* requests of add and of multiply, for every id and every pair of integer *)
(* arguments of the ranges, and now and then a line that is answered by an *)
(* error.                                                                  *)
(***************************************************************************)
ArithmeticRequests ==
    { json_dumps(Request(Num(q[1]), "tools/execute",
                         Obj([id |-> Str(q[2]),
                              args |-> Obj([a |-> Num(q[3]), b |-> Num(q[4])])])))
        : q \in (1..MaxRequestId) \X {"add", "multiply"}
                  \X (-ArgRange..ArgRange) \X (-ArgRange..ArgRange) }

ArithmeticAlphabet ==
    ArithmeticRequests \cup
    { Text("garbage"),
      json_dumps(Request(Num(1), "tools/execute",
                         Obj([id |-> Str("add"), args |-> Obj([a |-> Num(2), b |-> Num(3)])]))),
      json_dumps(Request(Num(4), "tools/execute",
                         Obj([id |-> Str("multiply"), args |-> Obj([a |-> Num(2), b |-> Num(3)])]))),
      json_dumps(Request(Num(1), "tools/execute",
                         Obj([id |-> Str("add"), args |-> Obj([a |-> Num(2), b |-> Str("x")])]))) }

\* the feeder reads what the server wrote and writes one arithmetic line
FeedArithmetic ==
    /\ ~eofIn
    /\ fed < MaxLines
    /\ c2s = <<>>
    /\ \E line \in ArithmeticAlphabet : c2s' = <<line>>
    /\ s2c' = <<>>
    /\ fed' = fed + 1
    /\ UNCHANGED <<clientVars, serverVars, exited, eofIn>>
    /\ UNCHANGED toolVars

NextArithmetic == ServerNext \/ FeedArithmetic \/ FeederClose

SpecArithmetic == InitFeeder /\ [][NextArithmetic]_vars

(***************************************************************************)
(* LogAggregator: the log buffer.  Entries reach add_log from the monitor  *)
(* loops of the log sources (the callback given to start_monitoring) and   *)
(* from POST /api/logs.  add_log has no await: it is one step.             *)
(***************************************************************************)
\* s[-n:] of a list
PyLast(s, n) ==
    IF n = 0 THEN s
    ELSE IF n < 0 THEN SubSeq(s, 1 - n, Len(s))
    ELSE IF n >= Len(s) THEN s
    ELSE SubSeq(s, Len(s) - n + 1, Len(s))

\* s[:n] of a list, for n >= 0
PyFirst(s, n) == IF n >= Len(s) THEN s ELSE SubSeq(s, 1, n)

\* datetime.now().isoformat() at the k-th call of add_log
isoformat(k) ==
    CASE k = 1 -> "T1" [] k = 2 -> "T2" [] k = 3 -> "T3" [] k = 4 -> "T4"
      [] k = 5 -> "T5" [] k = 6 -> "T6" [] OTHER -> "T7"

\* the entry add_log appends for log: log itself, with a timestamp when it
\* has none
Timestamped(log, now) ==
    IF PyIn("timestamp", log) THEN log
    ELSE Obj([k \in DOMAIN log.f \cup {"timestamp"} |->
                IF k = "timestamp" THEN Str(now) ELSE log.f[k]])

\* add_log trimming to the oldest max_logs entries instead of the latest
add_log_keepsOldest(self, log, now) ==
    LET appended == Append(self.logs, Timestamped(log, now))
    IN  [self EXCEPT !.logs = IF Len(appended) > self.max_logs
                              THEN PyFirst(appended, self.max_logs)
                              ELSE appended]

\* LogAggregator.add_log
add_log(self, log, now) ==
    LET appended == Append(self.logs, Timestamped(log, now))
    IN  [self EXCEPT !.logs = IF Len(appended) > self.max_logs
                              THEN PyLast(appended, self.max_logs)
                              ELSE appended]

\* the log entries of the model
LogAlphabet ==
    { Obj([source |-> Str("mcp"), message |-> Str("started")]),
      Obj([source |-> Str("mcp"), message |-> Str("stopped"),
           timestamp |-> Str("T0")]),
      Obj([source |-> Str("web"), message |-> Str("started")]) }

\* the bodies POST /api/logs is given: the entries, and some that lack a
\* member the handler asks for
PostedAlphabet ==
    LogAlphabet \cup { Obj([source |-> Str("mcp")]), Obj([message |-> Str("started")]) }

\* a monitor loop gives one entry to the callback
log_callback ==
    /\ Len(added) < MaxAdded
    /\ \E log \in LogAlphabet :
         LET now == isoformat(Len(added) + 1)
         IN  /\ aggregator' = add_log(aggregator, log, now)
             /\ added' = Append(added, Timestamped(log, now))
    /\ UNCHANGED <<serverVars, clientVars, c2s, s2c, exited, eofIn, fed>>
    /\ UNCHANGED envVars

\* handle_add_log: POST /api/logs.  monitored tells whether the entry's
\* source is a registered MCP or web UI source that is being monitored: its
\* own add_log then gives the entry to the callback, and the handler adds
\* it once more.
handle_add_log ==
    /\ Len(added) + 1 < MaxAdded
    /\ \E log \in PostedAlphabet, monitored \in BOOLEAN :
         IF ~PyIn("source", log) \/ ~PyIn("message", log)
         THEN UNCHANGED <<aggregator, added>>
         ELSE LET now   == isoformat(Len(added) + 1)
                  entry == Timestamped(log, now)
                  self1 == IF monitored THEN add_log(aggregator, log, now)
                                        ELSE aggregator
                  added1 == IF monitored THEN Append(added, entry) ELSE added
              IN  /\ aggregator' = add_log(self1, entry, isoformat(Len(added1) + 1))
                  /\ added' = Append(added1, entry)
    /\ UNCHANGED <<serverVars, clientVars, c2s, s2c, exited, eofIn, fed>>
    /\ UNCHANGED envVars

NextAggregator == log_callback \/ handle_add_log

SpecAggregator == Init /\ [][NextAggregator]_vars

(***************************************************************************)
(* MCPTestingEnvironment: the component table.  The handlers of the web    *)
(* application are coroutines of one event loop: a call runs from one      *)
(* await to the next as one step, and the handlers of other requests may   *)
(* run while it is suspended.  start_component is suspended in             *)
(* is_port_in_use and in asyncio.sleep, check_component_status in          *)
(* is_port_in_use; stop_component has no await.  Whether a port is in use  *)
(* is decided by the machine (any program may listen on it), and a process *)
(* may end at any time.                                                    *)
(***************************************************************************)
protocolVars == <<serverVars, clientVars, c2s, s2c, exited, eofIn, fed>>

\* process.terminate(), and the end of the process that follows
terminate(o, p) == [o EXCEPT !.alive = @ \ {p}]

\* process.poll() is not None
Terminated(o, p) == p \notin o.alive

\* the handles no component and no call holds, and the handle of a new
\* process (handles are numbered anew once nothing refers to them)
FreeHandles ==
    { p \in 1..MaxProcs : /\ \A c \in Components : env.components[c].process # p
                          /\ \A t \in Tasks : tasks[t].process # p }
Popen == CHOOSE p \in FreeHandles : \A q \in FreeHandles : p <= q

\* a call of task t returns ret, having logged log
Return(t, op, c, ret, log) ==
    /\ tasks' = [tasks EXCEPT ![t] = IdleTask]
    /\ envLast' = [op |-> op, component |-> c, ret |-> ret, log |-> log,
                   tick |-> ~envLast.tick]

\* start_component up to its first await: the check of the running flag
StartCall(t, c) ==
    /\ UNCHANGED <<protocolVars, aggVars>>
    /\ tasks[t].pc = "idle"
    /\ IF env.components[c].running
       THEN Return(t, "start", c, Bool(TRUE), "is already running")
       ELSE /\ tasks' = [tasks EXCEPT ![t] =
                  [pc |-> "port1", op |-> "start", component |-> c, process |-> 0]]
            /\ UNCHANGED envLast
    /\ UNCHANGED <<env, os>>

\* start_component from the answer of the first is_port_in_use to the sleep
\* after Popen: the port is in use, the script is missing or Popen raises
\* (return False), or a process is created
StartSpawn(t) ==
    /\ UNCHANGED <<protocolVars, aggVars>>
    /\ tasks[t].pc = "port1"
    /\ \E port_in_use, script_exists, popen_raises \in BOOLEAN :
         IF port_in_use \/ ~script_exists \/ popen_raises
         THEN /\ Return(t, "start", tasks[t].component, Bool(FALSE),
                        IF port_in_use THEN "Port is already in use"
                        ELSE IF ~script_exists THEN "Component script not found"
                        ELSE "Error starting component")
              /\ UNCHANGED os
         ELSE /\ FreeHandles # {}
              /\ os' = [os EXCEPT !.alive = @ \cup {Popen}]
              /\ tasks' = [tasks EXCEPT ![t].pc = "sleep2", ![t].process = Popen]
              /\ UNCHANGED envLast
    /\ UNCHANGED env

\* settings["running"] = True; settings["process"] = process; return True.
\* A process whose handle is overwritten runs on out of the program's reach:
\* it is left out of os.
started(t) ==
    /\ env' = [env EXCEPT !.components[tasks[t].component] =
                  [@ EXCEPT !.running = TRUE, !.process = tasks[t].process]]
    /\ Return(t, "start", tasks[t].component, Bool(TRUE), "Started component")
    /\ os' = [os EXCEPT !.alive = @ \ {env.components[tasks[t].component].process}]

\* start_component after asyncio.sleep(2): the process has ended (return
\* False) or the port is asked for
StartPoll(t) ==
    /\ UNCHANGED <<protocolVars, aggVars>>
    /\ tasks[t].pc = "sleep2"
    /\ IF Terminated(os, tasks[t].process)
       THEN Return(t, "start", tasks[t].component, Bool(FALSE), "failed to start")
       ELSE /\ tasks' = [tasks EXCEPT ![t].pc = "port2"]
            /\ UNCHANGED envLast
    /\ UNCHANGED <<env, os>>

\* start_component from the answer of the second is_port_in_use
StartListening(t) ==
    /\ UNCHANGED <<protocolVars, aggVars>>
    /\ tasks[t].pc = "port2"
    /\ \E port_in_use \in BOOLEAN :
         IF port_in_use
         THEN started(t)
         ELSE /\ tasks' = [tasks EXCEPT ![t].pc = "port3"]
              /\ UNCHANGED <<env, os, envLast>>

\* start_component from the answer of the is_port_in_use after
\* asyncio.sleep(3): the process is terminated (return False) or recorded
StartSlow(t) ==
    /\ UNCHANGED <<protocolVars, aggVars>>
    /\ tasks[t].pc = "port3"
    /\ \E port_in_use \in BOOLEAN :
         IF port_in_use
         THEN started(t)
         ELSE /\ os' = terminate(os, tasks[t].process)
              /\ Return(t, "start", tasks[t].component, Bool(FALSE),
                        "is not listening on port")
              /\ UNCHANGED env

\* stop_component returning with the process handle dropped and the
\* running flag left as it is
stop_component_keepsFlag(self, o, c) ==
    LET settings == self.components[c]
    IN  IF ~settings.running
        THEN [self |-> self, os |-> o, ret |-> Bool(TRUE), log |-> "is not running"]
        ELSE [self |-> [self EXCEPT !.components[c].process = 0],
              os   |-> IF settings.process # 0 THEN terminate(o, settings.process) ELSE o,
              ret  |-> Bool(TRUE), log |-> "Stopped component"]

\* stop_component: the object, the processes and the value returned
stop_component(self, o, c) ==
    LET settings == self.components[c]
    IN  IF ~settings.running
        THEN [self |-> self, os |-> o, ret |-> Bool(TRUE), log |-> "is not running"]
        ELSE [self |-> [self EXCEPT !.components[c] =
                           [@ EXCEPT !.process = 0, !.running = FALSE]],
              os   |-> IF settings.process # 0 THEN terminate(o, settings.process) ELSE o,
              ret  |-> Bool(TRUE), log |-> "Stopped component"]

\* a call of stop_component
StopCall(t, c) ==
    /\ UNCHANGED <<protocolVars, aggVars>>
    /\ tasks[t].pc = "idle"
    /\ LET out == stop_component(env, os, c)
       IN  /\ env' = out.self
           /\ os' = out.os
           /\ Return(t, "stop", c, out.ret, out.log)

\* the loop of check_component_status from the i-th component on, up to the
\* next await: the components whose process has ended are marked, and the
\* loop is suspended at the first component whose running flag is set
\* (at = 0: the loop came to its end)
RECURSIVE Scan(_, _, _)
Scan(comps, o, i) ==
    IF i > Len(ComponentNames) THEN [components |-> comps, at |-> 0]
    ELSE LET c        == ComponentNames[i]
             settings == comps[c]
             polled   == IF settings.process # 0 /\ Terminated(o, settings.process)
                         THEN [settings EXCEPT !.running = FALSE, !.process = 0]
                         ELSE settings
             comps1   == [comps EXCEPT ![c] = polled]
         IN  IF polled.running
             THEN [components |-> comps1, at |-> i]
             ELSE Scan(comps1, o, i + 1)

IndexOf(c) == CHOOSE i \in DOMAIN ComponentNames : ComponentNames[i] = c

\* where the loop goes on after scan: suspended at a component, or returned
CheckGoesOn(t, scan) ==
    IF scan.at = 0
    THEN Return(t, "check", "none", None, "none")
    ELSE /\ tasks' = [tasks EXCEPT ![t] =
               [pc |-> "scan", op |-> "check",
                component |-> ComponentNames[scan.at], process |-> 0]]
         /\ UNCHANGED envLast

\* a call of check_component_status, up to its first await
CheckCall(t) ==
    /\ UNCHANGED <<protocolVars, aggVars>>
    /\ tasks[t].pc = "idle"
    /\ LET scan == Scan(env.components, os, 1)
       IN  /\ env' = [env EXCEPT !.components = scan.components]
           /\ CheckGoesOn(t, scan)
    /\ UNCHANGED os

\* check_component_status from the answer of is_port_in_use for a component
\* on: a component that does not listen is marked and its process is
\* terminated, and the loop goes on
CheckPort(t) ==
    /\ UNCHANGED <<protocolVars, aggVars>>
    /\ tasks[t].pc = "scan"
    /\ \E port_in_use \in BOOLEAN :
         LET c        == tasks[t].component
             settings == env.components[c]
             marked   == IF port_in_use THEN settings
                         ELSE [settings EXCEPT !.running = FALSE, !.process = 0]
             os1      == IF ~port_in_use /\ settings.process # 0
                         THEN terminate(os, settings.process) ELSE os
             scan     == Scan([env.components EXCEPT ![c] = marked], os1, IndexOf(c) + 1)
         IN  /\ env' = [env EXCEPT !.components = scan.components]
             /\ os' = os1
             /\ CheckGoesOn(t, scan)

\* a process start_component created ends
ProcessExits ==
    /\ UNCHANGED <<protocolVars, aggVars>>
    /\ \E p \in os.alive : os' = [os EXCEPT !.alive = @ \ {p}]
    /\ UNCHANGED <<env, tasks, envLast>>

start_component(t) ==
    \/ \E c \in Components : StartCall(t, c)
    \/ StartSpawn(t)
    \/ StartPoll(t)
    \/ StartListening(t)
    \/ StartSlow(t)

check_component_status(t) == CheckCall(t) \/ CheckPort(t)

NextEnvironment ==
    \/ \E t \in Tasks : start_component(t)
    \/ \E t \in Tasks, c \in Components : StopCall(t, c)
    \/ \E t \in Tasks : check_component_status(t)
    \/ ProcessExits

SpecEnvironment == Init /\ [][NextEnvironment]_vars

(***************************************************************************)
(* Properties.                                                             *)
(***************************************************************************)
\* the line a completed call read decodes to a dict with an id
ReadResponseWithId(o) ==
    /\ o.sr = "response"
    /\ IsObj(o.line.v)
    /\ "id" \in DOMAIN o.line.v.f

\* a line is a response whose result holds every key of keys
ResultHas(line, keys) ==
    /\ line.k = "json"
    /\ IsObj(line.v)
    /\ "result" \in DOMAIN line.v.f
    /\ IsObj(line.v.f["result"])
    /\ keys \subseteq DOMAIN line.v.f["result"].f

\* a line is a successful response to initialize
SuccessfulInitialize(line) ==
    /\ ResultHas(line, {"capabilities", "serverInfo"})
    /\ "error" \notin DOMAIN line.v.f

\* C1: the response send_request returns for a request carries the id of
\* that request (client run against SimpleMCPServer).
C1_ResponseIdMatchesRequest ==
    ReadResponseWithId(last) => last.line.v.f["id"] = Num(last.req)

\* C2: when the line read back is a response with another id than the
\* pending request's, the call ends by reporting an anomaly, not by a normal
\* return.
C2_IdMismatchReported ==
    (ReadResponseWithId(last) /\ last.line.v.f["id"] # Num(last.req))
        => last.kind = "raise"

\* C3: the server has written exactly one line to its output for each
\* request line it has read, and no other line.
C3_OneLinePerRequest ==
    nwritten = nread

C5_NoInitializeWhenActive ==
    lastSent.method = "initialize" => ~lastSent.conn

C7_ConnectNotifiesCaller ==
    (last.api = "connect" /\ last.line # NoLine /\ ~SuccessfulInitialize(last.line))
        => last.kind = "raise"

\* C8: every id next_id returns is greater than every id it returned
\* before, the first one is 1, and no two requests written carry the same id.
C8_IdsStrictlyIncrease ==
    /\ allocated # <<>> => allocated[1] = 1
    /\ \A i, j \in DOMAIN allocated : i < j => allocated[i] < allocated[j]
    /\ \A i, j \in DOMAIN sent : i # j => sent[i] # sent[j]

\* C8 witness: two ids have been allocated and two requests written
C8_Witness ==
    /\ Len(allocated) >= 2
    /\ Len(sent) >= 2

\* C9: no request is written while another call of the same client is
\* suspended in send_request.
C9_AtMostOneOutstanding ==
    lastSent.pending = 0

\* C10: every line that is not well-formed JSON is answered by an error
\* response with code -32700 and id null.
C10_ParseErrorForNonJson ==
    (handled.request_str # NoLine /\ ~WellFormedJSON(handled.request_str))
        => handled.response_str =
             json_dumps(create_error_response(None, -32700, "Parse error"))

\* a line was handled, and it is well-formed JSON
HandledJSON == handled.request_str # NoLine /\ WellFormedJSON(handled.request_str)

\* the value a handled line decodes to
HandledValue == handled.request_str.v

\* a decoded value is an object with a member of that name
HasField(v, name) == IsObj(v) /\ name \in DOMAIN v.f

\* the id of a decoded value: its id member when it has one, null otherwise
OriginalId(v) == IF HasField(v, "id") THEN v.f["id"] ELSE None

\* a line is an error response with that code and that id
IsErrorWith(line, code, id) ==
    /\ line.k = "json"
    /\ HasField(line.v, "error")
    /\ HasField(line.v.f["error"], "code")
    /\ line.v.f["error"].f["code"] = Num(code)
    /\ HasField(line.v, "id")
    /\ line.v.f["id"] = id

\* C11: every well-formed JSON line whose value has no method member (an
\* object with or without id, an array, a number, a string, null) is
\* answered by an error response with code -32600 and the value's id, null
\* when it has none.
C11_InvalidRequestForNoMethod ==
    (HandledJSON /\ ~HasField(HandledValue, "method"))
        => IsErrorWith(handled.response_str, -32600, OriginalId(HandledValue))

\* the method member of a decoded value names a method handle_request
\* dispatches
HasKnownMethod(v) ==
    /\ HasField(v, "method")
    /\ IsStr(v.f["method"])
    /\ v.f["method"].s \in KnownMethods

\* C12: every decoded message with a method member that names no registered
\* method is answered by an error response with code -32601 and the
\* message's id (null when it has none), whatever its params are.
C12_MethodNotFoundForUnknown ==
    (HandledJSON /\ HasField(HandledValue, "method") /\ ~HasKnownMethod(HandledValue))
        => IsErrorWith(handled.response_str, -32601, OriginalId(HandledValue))

\* the params of a decoded message, {} when it has none
ParamsOf(v) == PyGet(v, "params", Obj(EmptyDict))

\* a declared argument of a registry entry is not a key of the args of params
LacksDeclared(reg, params) ==
    LET key == params.f["id"]
        args == PyGet(params, "args", Obj(EmptyDict))
    IN  /\ IsStr(key)
        /\ key.s \in RegistryKeys(reg, "id")
        /\ \E i \in DOMAIN RegistryEntry(reg, "id", key.s).args :
              ~HasField(args, RegistryEntry(reg, "id", key.s).args[i].name)

\* a decoded message to a known method lacks a required argument of that
\* method: uri for resources/get; id, or an argument the selected prompt or
\* tool declares, for prompts/execute and tools/execute
LacksRequired(v) ==
    LET method == v.f["method"].s
        params == ParamsOf(v)
    IN  CASE method = "resources/get" -> ~HasField(params, "uri")
          [] method = "prompts/execute" ->
               ~HasField(params, "id") \/ LacksDeclared(server.prompts, params)
          [] method = "tools/execute" ->
               ~HasField(params, "id") \/ LacksDeclared(server.tools, params)
          [] OTHER -> FALSE

\* C13: every decoded request with an id to a known method that lacks a
\* required argument of that method is answered by an error response with
\* code -32602 and the request's id.
C13_InvalidParamsForMissingArgument ==
    (/\ HandledJSON
     /\ HasKnownMethod(HandledValue)
     /\ HasField(HandledValue, "id")
     /\ LacksRequired(HandledValue))
        => IsErrorWith(handled.response_str, -32602, HandledValue.f["id"])

\* the handler of a decoded request with an id to a known method raises
HandlerFails(v) ==
    /\ HasKnownMethod(v)
    /\ HasField(v, "id")
    /\ Handler(server, v.f["method"].s, v.f["id"], ParamsOf(v)).exc

\* C14: whenever the handler of a decoded request that carries an id
\* raises, the response is an error with code -32603 and the request's id.
C14_InternalErrorEchoesId ==
    (HandledJSON /\ HandlerFails(HandledValue))
        => IsErrorWith(handled.response_str, -32603, HandledValue.f["id"])

\* a line is an object with exactly one of the members result and error
ExactlyOneOfResultError(line) ==
    /\ line.k = "json"
    /\ IsObj(line.v)
    /\ HasField(line.v, "result") # HasField(line.v, "error")

\* C15: every response handle_request returns, for any input line, and
\* every JSON line in the server's output, is an object with exactly one of
\* the members result and error.
C15_ExactlyOneOfResultError ==
    /\ handled.request_str # NoLine => ExactlyOneOfResultError(handled.response_str)
    /\ \A i \in DOMAIN s2c : s2c[i].k = "json" => ExactlyOneOfResultError(s2c[i])

\* C15 witness: the server has answered a line that is not JSON with an
\* error, after an earlier line, and the response is in its output
C15_Witness ==
    /\ nread >= 2
    /\ handled.request_str = Text("garbage")
    /\ HasField(handled.response_str.v, "error")
    /\ s2c # <<>> /\ s2c[Len(s2c)] = handled.response_str

\* the last line handled is a shutdown request with an id
ShutdownHandled ==
    /\ HandledJSON
    /\ HasKnownMethod(HandledValue)
    /\ HandledValue.f["method"].s = "shutdown"
    /\ HasField(HandledValue, "id")

\* C16: once the server has handled a shutdown request, the response it
\* wrote is the empty result with the request's id, run() has left its read
\* loop, and from then on the server reads no line and writes no line: the
\* shutdown response is the last response it writes.
C16_ShutdownStopsReadLoop ==
    /\ [](ShutdownHandled
            => /\ handled.response_str =
                    json_dumps(result_response(HandledValue.f["id"], Obj(EmptyDict)))
               /\ ~server.running
               /\ spc = "stopped")
    /\ [][ShutdownHandled
            => /\ nread' = nread
               /\ nwritten' = nwritten
               /\ handled' = handled]_vars
    /\ [][(~ShutdownHandled /\ ShutdownHandled')
            => /\ nread' = nread + 1
               /\ s2c' = s2c \o <<handled'.response_str, Text("Simple MCP Server stopped")>>]_vars

\* C16 witness: a shutdown request was handled after an earlier line, the
\* feeder has supplied a further line, and the server has not read it
C16_Witness ==
    /\ ShutdownHandled
    /\ nread >= 2
    /\ c2s # <<>>

\* C17: when a shutdown() call made on a connected client gets no response
\* (the stream is closed) or a line that cannot be decoded, the session is
\* not silently closed: connected stays true or the call raises.
C17_ShutdownNeedsResponse ==
    [][ (/\ last' # last
         /\ last'.api = "shutdown"
         /\ last'.conn0
         /\ last'.sr \in {"None:eof", "None:decode"})
          => client'.connected \/ last'.kind = "raise" ]_vars

\* a line is an error response: an object with an error member that has a
\* code and a message, and without result member
IsErrorResponse(line) ==
    /\ line.k = "json"
    /\ HasField(line.v, "error")
    /\ ~HasField(line.v, "result")
    /\ HasField(line.v.f["error"], "code")
    /\ HasField(line.v.f["error"], "message")

\* a value returned or raised carries the code and the message of an error
CarriesError(val, err) ==
    /\ HasField(val, "code") /\ val.f["code"] = err.f["code"]
    /\ HasField(val, "message") /\ val.f["message"] = err.f["message"]

\* C18: when a call of list_*, get_resource, execute_* or initialize reads
\* an error response, what it returns or raises carries the code and the
\* message of the error.
C18_ErrorSurfacedToCaller ==
    (/\ last.api \notin {"none", "connect", "shutdown"}
     /\ last.sr = "response"
     /\ IsErrorResponse(last.line))
        => CarriesError(last.val, last.line.v.f["error"])

\* the failure kind of a completed call: the stream was closed before a
\* line arrived, the line read is not JSON, or the line read is an error
\* response
FailureKind(o) ==
    CASE o.sr = "None:eof"    -> "NoResponse"
      [] o.sr = "None:decode" -> "DecodeFailure"
      [] o.sr = "response" /\ IsErrorResponse(o.line) -> "RpcError"
      [] OTHER -> "none"

\* what send_request returns to the API method for a failure of each kind
FailureReturn(kind) ==
    CASE kind = "NoResponse"    -> DecodeResponse(TRUE, NoLine).response
      [] kind = "DecodeFailure" -> DecodeResponse(FALSE, Text("garbage")).response
      [] kind = "RpcError"      ->
           DecodeResponse(FALSE, json_dumps(create_error_response(Num(1), -32601,
                                      "Method not found: <method>"))).response

\* C19: when send_request fails by one of the three kinds, the value it
\* returns is not the value it returns for a failure of another kind.
C19_FailureKindsDistinct ==
    FailureKind(last) # "none"
        => \A kind \in {"NoResponse", "DecodeFailure", "RpcError"} \ {FailureKind(last)} :
              DecodeResponse(last.sr = "None:eof", last.line).response # FailureReturn(kind)

\* the error codes of handle_request
ErrorCodes == {-32700, -32600, -32601, -32602, -32603}

\* C20: after the server has answered a line with an error response of code
\* -32700, -32600, -32601, -32602 or -32603, running is still true and run()
\* is still in its read loop until the input ends, and the next line it
\* reads is answered exactly as a server just constructed answers it (same
\* response, same printed lines, same state afterwards).
C20_UsableAfterError ==
    /\ [](ErrorCodeOf(handled.response_str) \in ErrorCodes
            => /\ server.running
               /\ spc = "loop" \/ (spc = "stopped" /\ eofIn /\ c2s = <<>>))
    /\ [][(ErrorCodeOf(handled.response_str) \in ErrorCodes /\ nread' # nread)
            => LET fresh == handle_request(ServerInit, handled'.request_str)
               IN  /\ handled'.response_str = fresh.response_str
                   /\ handled'.prints = Len(fresh.prints)
                   /\ server' = fresh.self
                   /\ handled'.prevcode = ErrorCodeOf(handled.response_str)]_vars

\* C20 witness: the server has answered a well-formed request with a result
\* right after it answered a line with an error of code -32603
C20_Witness ==
    /\ handled.prevcode = -32603
    /\ WellFormedJSON(handled.request_str)
    /\ HasField(handled.response_str.v, "result")
    /\ HandledValue.f["method"] = Str("tools/execute")

\* C21: no call of handle_request changes resources, prompts, tools or
\* capabilities (nor request_id); the only attribute of the server a step
\* changes is running, and only the step that handles a shutdown request
\* with an id sets it to false.
C21_RegistriesReadOnly ==
    /\ []([server EXCEPT !.running = TRUE] = ServerInit)
    /\ [][server' # server
            => /\ nread' = nread + 1
               /\ server.running /\ ~server'.running
               /\ ShutdownHandled']_vars
    /\ [][(nread' # nread /\ ~ShutdownHandled') => server' = server]_vars

\* C21 witness: the server has handled a resources/list request and then a
\* shutdown request, and its registries are those of construction
C21_Witness ==
    /\ nread >= 2
    /\ ShutdownHandled
    /\ ~server.running
    /\ handled.prevcode = 0
    /\ server.resources = ServerResources
    /\ server.tools = ServerTools

\* the last line handled is an initialize request with an id
InitializeHandled ==
    /\ HandledJSON
    /\ HasKnownMethod(HandledValue)
    /\ HandledValue.f["method"].s = "initialize"
    /\ HasField(HandledValue, "id")

\* C22: every initialize request the server handles, whatever was handled
\* before it, is answered as a server just constructed answers it; when it
\* is answered by a result, the result is the one of the first initialize
\* (same capabilities and serverInfo); and handling it leaves the server's
\* state, running included, as it was.
C22_InitializeIdempotent ==
    /\ [](InitializeHandled
            => /\ handled.response_str =
                    handle_request(ServerInit, handled.request_str).response_str
               /\ InitializeResult(handled.response_str)
                    => /\ handled.first # NoLine
                       /\ handled.response_str.v.f["result"] = handled.first.v.f["result"]
                       /\ handled.response_str.v.f["result"] =
                            Obj([capabilities |-> ServerCapabilities,
                                 serverInfo   |-> ServerInfo]))
    /\ [][(nread' # nread /\ InitializeHandled') => server' = server /\ server'.running]_vars

\* C22 witness: an initialize request was answered by a result for the
\* second time, with a request that raised in between
C22_Witness ==
    /\ InitializeHandled
    /\ InitializeResult(handled.response_str)
    /\ handled.first # NoLine
    /\ handled.first # handled.response_str
    /\ handled.prevcode = -32603

\* C23: every result of resources/list the server returns, whatever was
\* handled before it, holds the same set of uris as the first one (the uris
\* of the registry).
C23_ResourcesListStable ==
    /\ \A i, j \in DOMAIN handled.listed : handled.listed[i] = handled.listed[j]
    /\ ResourcesListResult(handled.response_str)
        => /\ handled.listed # <<>>
           /\ handled.listed[Len(handled.listed)] = UriSet(handled.response_str)
           /\ UriSet(handled.response_str) =
                { Str(uri) : uri \in RegistryKeys(ServerResources, "uri") }

\* C23 witness: resources/list was answered by a result for the second
\* time, to another request than the first time, with a request that
\* raised in between
C23_Witness ==
    /\ ResourcesListResult(handled.response_str)
    /\ HandledValue.f["id"] = Num(8)
    /\ Len(handled.listed) = 2
    /\ handled.prevcode = -32603

\* C24: the wire codec round-trips.  Every request the client builds is
\* written as one line that the server's json.loads decodes to the same id,
\* method and params; every response line the server wrote and the client
\* read is decoded by the client to the value the server encoded (same id,
\* same result or error).
C24_WireRoundTrip ==
    /\ [][sent' # sent =>
            \E api \in ApiMethods : \E a \in CallArgs(api) :
                LET request == BuildRequest(client', api, a, lastSent'.id)
                    line == c2s'[Len(c2s')]
                    decoded == json_loads(line)
                IN  /\ c2s' = Append(c2s, line)
                    /\ line.k = "json"
                    /\ decoded.exc = "none"
                    /\ \A m \in {"id", "method", "params"} :
                          decoded.v.f[m] = request.f[m]]_vars
    /\ [](last.line.k = "json" =>
            /\ last.sr = "response"
            /\ DecodeResponse(FALSE, last.line).response = last.line.v)

\* a decoded value has no message shape: it is not an object, or it has
\* neither method nor result nor error, or it has both result and error
NoMessageShape(v) ==
    \/ ~IsObj(v)
    \/ /\ IsObj(v)
       /\ \/ DOMAIN v.f \cap {"method", "result", "error"} = {}
          \/ {"result", "error"} \subseteq DOMAIN v.f

\* C25: a received line that is well-formed JSON without a message shape
\* is rejected by the client's decoding: send_request never hands it to the
\* API method as a response.
C25_ShapelessRejected ==
    (WellFormedJSON(last.line) /\ NoMessageShape(last.line.v)) => last.sr # "response"

\* a decoded request with an id to tools/execute or prompts/execute has every
\* required argument, one of them of the wrong shape: a or b that is not a
\* number for add and multiply, a text that is not a string for echo and
\* reverse
WrongShapeArgs(v) ==
    /\ HasKnownMethod(v)
    /\ HasField(v, "id")
    /\ HasField(ParamsOf(v), "id")
    /\ IsStr(ParamsOf(v).f["id"])
    /\ HasField(ParamsOf(v), "args")
    /\ IsObj(ParamsOf(v).f["args"])
    /\ LET method == v.f["method"].s
           key == ParamsOf(v).f["id"].s
           args == ParamsOf(v).f["args"].f
       IN  \/ /\ method = "tools/execute"
              /\ key \in {"add", "multiply"}
              /\ {"a", "b"} \subseteq DOMAIN args
              /\ ~IsNum(args["a"]) \/ ~IsNum(args["b"])
           \/ /\ method = "prompts/execute"
              /\ key \in {"echo", "reverse"}
              /\ "text" \in DOMAIN args
              /\ ~IsStr(args["text"])

\* C26: every tools/execute or prompts/execute request whose required
\* arguments are present, one of them with the wrong shape, is answered by
\* an error response with code -32602 and the request's id.
C26_InvalidParamsForWrongShape ==
    (HandledJSON /\ WrongShapeArgs(HandledValue))
        => IsErrorWith(handled.response_str, -32602, HandledValue.f["id"])

\* a handled line is a tools/execute request with an id, for that tool,
\* with args that hold integers a and b
ArithmeticHandled(tool) ==
    /\ HandledJSON
    /\ HasKnownMethod(HandledValue)
    /\ HandledValue.f["method"] = Str("tools/execute")
    /\ HasField(HandledValue, "id")
    /\ HasField(ParamsOf(HandledValue), "id")
    /\ ParamsOf(HandledValue).f["id"] = Str(tool)
    /\ HasField(ParamsOf(HandledValue), "args")
    /\ HasField(ParamsOf(HandledValue).f["args"], "a")
    /\ HasField(ParamsOf(HandledValue).f["args"], "b")
    /\ IsNum(ParamsOf(HandledValue).f["args"].f["a"])
    /\ IsNum(ParamsOf(HandledValue).f["args"].f["b"])

\* the integer argument of that name of the handled arithmetic request
ArgOf(name) == ParamsOf(HandledValue).f["args"].f[name].n

\* a line is a success response with that id and that result
IsResultWith(line, id, result) ==
    /\ line.k = "json"
    /\ HasField(line.v, "result")
    /\ ~HasField(line.v, "error")
    /\ line.v.f["result"] = result
    /\ HasField(line.v, "id")
    /\ line.v.f["id"] = id

\* C27: for every id and all integers a and b of the range, tools/execute
\* of add with args {a, b} is answered by the success response with that id
\* and the result {result: a + b}, and of multiply by the one with the
\* result {result: a * b}.
C27_AddAndMultiply ==
    /\ ArithmeticHandled("add")
         => IsResultWith(handled.response_str, HandledValue.f["id"],
                         Obj([result |-> Num(ArgOf("a") + ArgOf("b"))]))
    /\ ArithmeticHandled("multiply")
         => IsResultWith(handled.response_str, HandledValue.f["id"],
                         Obj([result |-> Num(ArgOf("a") * ArgOf("b"))]))

\* C27 witness: multiply of the two ends of the range, with the largest id,
\* was answered, after a request that was answered by an error
C27_Witness ==
    /\ ArithmeticHandled("multiply")
    /\ HandledValue.f["id"] = Num(MaxRequestId)
    /\ ArgOf("a") = -ArgRange
    /\ ArgOf("b") = ArgRange
    /\ IsResultWith(handled.response_str, Num(MaxRequestId),
                    Obj([result |-> Num(-(ArgRange * ArgRange))]))
    /\ handled.prevcode # 0

\* C28: an API call writes at most one request line.  A step writes at most
\* one line, only the step that starts a call (and allocates its id) writes,
\* and the line carries that id; no completion of a call, whatever its
\* outcome, writes again, so no id is written twice.
C28_AtMostOneWritePerCall ==
    /\ [][Len(sent') <= Len(sent) + 1]_vars
    /\ [][sent' # sent =>
            /\ Len(allocated') = Len(allocated) + 1
            /\ sent' = Append(sent, allocated'[Len(allocated')])]_vars
    /\ [](\A k \in DOMAIN allocated :
            Cardinality({ i \in DOMAIN sent : sent[i] = allocated[k] }) <= 1)

\* C28 witness: the first call ended on an undecodable line, and one more
\* request, of another call, has been written since
C28_Witness ==
    /\ last.sr = "None:decode"
    /\ last.req = 1
    /\ sent = <<1, 2>>

\* the JSON lines among the lines a step added to the server's output
NewResponses ==
    LET new == SubSeq(s2c', Len(s2c) + 1, Len(s2c'))
    IN  SelectSeq(new, LAMBDA line : line.k = "json")

\* C29: handle_request is total.  For every line run() reads, handle_request
\* returns one response, a JSON object, which run() writes as the one JSON
\* line of that step; run() is never left by an exception out of
\* handle_request; and an error member of a response has one of the codes
\* -32700, -32600, -32601, -32602, -32603.
C29_HandleRequestTotal ==
    /\ [](spc # "crashed")
    /\ [](handled.request_str # NoLine =>
            /\ handled.response_str.k = "json"
            /\ IsObj(handled.response_str.v)
            /\ HasField(handled.response_str.v, "error")
                  => ErrorCodeOf(handled.response_str) \in ErrorCodes)
    /\ [][nread' # nread =>
            /\ nread' = nread + 1
            /\ handled'.request_str = Head(c2s)
            /\ NewResponses = <<handled'.response_str>>]_vars

\* C29 witness: a line of brackets nested too deep, on which json.loads
\* raises RecursionError, was answered with the code -32603, after a line
\* that was answered with -32700
C29_Witness ==
    /\ handled.request_str = DeepLine
    /\ ErrorCodeOf(handled.response_str) = -32603
    /\ handled.prevcode = -32700
    /\ spc = "loop"

\* C30: the read loop of run() terminates when the input stream is fair,
\* and it is left in two ways only: by the step that handles a shutdown
\* request, or at the end of the input stream, by a step that reads no line
\* and writes no response; no other request and no error ends it.
C30_ReadLoopTerminates ==
    /\ <>(spc \notin {"init", "loop"})
    /\ [][(spc = "loop" /\ spc' # "loop") =>
            /\ spc' = "stopped"
            /\ \/ /\ nread' = nread + 1
                  /\ ShutdownHandled'
               \/ /\ nread' = nread
                  /\ eofIn /\ c2s = <<>>
                  /\ handled' = handled
                  /\ NewResponses = <<>>]_vars

\* the API method of the call a step starts, when the step allocates an id
\* or completes a call at once
StartedApi == IF co'[MainCaller].pc # "idle" THEN co'[MainCaller].api ELSE last'.api

\* a step starts a call of list_*, get_resource, execute_* or shutdown
GuardedCallStarts ==
    /\ co[MainCaller].pc = "idle"
    /\ co' # co \/ last' # last
    /\ StartedApi \notin {"none", "connect", "initialize"}

\* C31 (as stated): when a shutdown() called on a connected client has
\* returned, connected is false, and every call of list_*, get_resource,
\* execute_* or shutdown made from then on returns its default value,
\* allocates no id and writes nothing.
C31_ClosedForGood ==
    /\ []((last.api = "shutdown" /\ last.kind = "return") => ~client.connected)
    /\ [][(last.closed /\ GuardedCallStarts) =>
            /\ allocated' = allocated
            /\ sent' = sent
            /\ c2s' = c2s
            /\ last'.sr = "notsent"
            /\ last'.val = DefaultReturn(last'.api)]_vars

\* C31 (amended): when a shutdown() called on a connected client has
\* returned, connected is false, and it stays false until an initialize()
\* or connect() reads a result; every call of list_*, get_resource,
\* execute_* or shutdown made while it is false returns its default value,
\* allocates no id and writes nothing.
C31_ClosedUntilInitialize ==
    /\ []((last.api = "shutdown" /\ last.kind = "return") => ~client.connected)
    /\ [][(last.closed /\ ~client.connected /\ client'.connected) =>
            /\ last'.api \in {"connect", "initialize"}
            /\ last'.sr = "response"]_vars
    /\ [][(last.closed /\ ~client.connected /\ GuardedCallStarts) =>
            /\ allocated' = allocated
            /\ sent' = sent
            /\ c2s' = c2s
            /\ client' = client
            /\ last'.sr = "notsent"
            /\ last'.req = 0
            /\ last'.val = DefaultReturn(last'.api)]_vars

\* C31 witness: after a shutdown() of a connected client returned, a call of
\* list_resources returned its default
C31_Witness ==
    /\ last.closed
    /\ last.api = "list_resources"
    /\ last.sr = "notsent"
    /\ last.val = Arr(<<>>)
    /\ ~client.connected

\* the handled line is a request with an id to one of the domain methods
DomainRequestHandled ==
    /\ HandledJSON
    /\ HasKnownMethod(HandledValue)
    /\ HandledValue.f["method"].s \notin {"initialize", "shutdown"}
    /\ HasField(HandledValue, "id")

\* C32: the response to a line is a function of the line alone.  Whatever
\* the server handled before, and whether or not an initialize request was
\* among it, the response to a line is the response a server just
\* constructed gives to that line.
C32_ResponseDependsOnLineOnly ==
    handled.request_str # NoLine
        => handled.response_str = handle_request(ServerInit, handled.request_str).response_str

\* C32 witness: resources/list was answered with a result while no
\* initialize request had been answered, after two other lines
C32_Witness ==
    /\ DomainRequestHandled
    /\ ResourcesListResult(handled.response_str)
    /\ handled.first = NoLine
    /\ nread = MaxLines

\* C33: the ids of the requests written are 1, 2, 3, ... in the order of
\* writing, without a gap, and every id that was allocated belongs to a
\* request that was written.
C33_IdsWithoutGap ==
    /\ \A i \in DOMAIN sent : sent[i] = i
    /\ allocated = sent

\* the member of params that names the target of a method, its registry,
\* and the message of the error for a target that is not found
TargetMember(method) == IF method = "resources/get" THEN "uri" ELSE "id"
TargetKeys(method) ==
    CASE method = "resources/get"   -> RegistryKeys(server.resources, "uri")
      [] method = "prompts/execute" -> RegistryKeys(server.prompts, "id")
      [] method = "tools/execute"   -> RegistryKeys(server.tools, "id")
NotFoundMessage(method) ==
    CASE method = "resources/get"   -> "Resource not found: <uri>"
      [] method = "prompts/execute" -> "Prompt not found: <id>"
      [] method = "tools/execute"   -> "Tool not found: <id>"

\* a decoded request with an id to resources/get, prompts/execute or
\* tools/execute whose params are an object in which the target identifier
\* is absent, empty, or not a key of the registry
BadTarget(v) ==
    /\ HasKnownMethod(v)
    /\ v.f["method"].s \in {"resources/get", "prompts/execute", "tools/execute"}
    /\ HasField(v, "id")
    /\ IsObj(ParamsOf(v))
    /\ LET member == TargetMember(v.f["method"].s)
           params == ParamsOf(v).f
       IN  \/ member \notin DOMAIN params
           \/ params[member] = Str("")
           \/ ~(IsStr(params[member]) /\ params[member].s \in TargetKeys(v.f["method"].s))

\* C34: a request whose target identifier is absent, empty or not in the
\* registry is answered by an error response with code -32602 and the
\* request's id, and the error is the one about the target, whatever the
\* arguments are.
C34_InvalidParamsForBadTarget ==
    (HandledJSON /\ BadTarget(HandledValue))
        => /\ IsErrorWith(handled.response_str, -32602, HandledValue.f["id"])
           /\ handled.response_str.v.f["error"].f["message"] =
                 Str(NotFoundMessage(HandledValue.f["method"].s))

\* C35: after a call whose send_request read the end of the stream, the
\* client is not connected, and no request is written from then on.
C35_UnusableAfterClosedStream ==
    /\ [](last.sr = "None:eof" => ~client.connected)
    /\ [][last.sr = "None:eof" => sent' = sent]_vars

\* the declared arguments of the prompt or tool a request names, in the
\* order of their declaration
DeclaredArgs(v) ==
    LET name == ParamsOf(v).f["id"].s
    IN  IF v.f["method"].s = "prompts/execute"
        THEN RegistryEntry(server.prompts, "id", name).args
        ELSE RegistryEntry(server.tools, "id", name).args

\* the args of a request, the empty dict when it gives none
ArgsOf(v) == PyGet(ParamsOf(v), "args", Obj(EmptyDict))

\* the positions of the declared arguments that the args lack
MissingPositions(v) ==
    { i \in DOMAIN DeclaredArgs(v) : ~PyIn(DeclaredArgs(v)[i].name, ArgsOf(v)) }

\* a decoded request with an id to prompts/execute or tools/execute that
\* names a prompt or tool of the registry and whose args, a container, lack
\* at least one declared argument
LacksArguments(v) ==
    /\ HasKnownMethod(v)
    /\ v.f["method"].s \in {"prompts/execute", "tools/execute"}
    /\ HasField(v, "id")
    /\ IsObj(ParamsOf(v))
    /\ HasField(ParamsOf(v), "id")
    /\ IsStr(ParamsOf(v).f["id"])
    /\ ParamsOf(v).f["id"].s \in TargetKeys(v.f["method"].s)
    /\ ArgsOf(v).t \in {"obj", "arr", "str"}
    /\ MissingPositions(v) # {}

\* C36: a prompts/execute or tools/execute request whose args lack declared
\* arguments is answered by an error response with code -32602 and the
\* request's id whose message names one argument, the missing one that is
\* declared first (a before b for add and multiply).
C36_FirstMissingNamed ==
    (HandledJSON /\ LacksArguments(HandledValue))
        => /\ IsErrorWith(handled.response_str, -32602, HandledValue.f["id"])
           /\ \E i \in MissingPositions(HandledValue) :
                 /\ \A j \in MissingPositions(HandledValue) : i <= j
                 /\ handled.response_str.v.f["error"].f["message"] =
                       Str(MissingMessage(DeclaredArgs(HandledValue)[i].name))

\* a request to multiply that gives no args at all was answered by the
\* error that names a
C36_Witness ==
    /\ HandledJSON
    /\ LacksArguments(HandledValue)
    /\ Cardinality(MissingPositions(HandledValue)) = 2
    /\ ParamsOf(HandledValue).f["id"] = Str("multiply")
    /\ handled.response_str.v.f["error"].f["message"] = Str("Missing argument: a")

\* C37: the log buffer holds at most max_logs entries, and it is the latest
\* entries add_log appended, in the order they were appended: the suffix of
\* the sequence of added entries of length max_logs, or the whole sequence
\* while that is shorter.
C37_BufferIsLatestSuffix ==
    /\ Len(aggregator.logs) <= aggregator.max_logs
    /\ Len(aggregator.logs) <= Len(added)
    /\ \A i \in 1..Len(aggregator.logs) :
          aggregator.logs[i] = added[Len(added) - Len(aggregator.logs) + i]
    /\ Len(added) >= aggregator.max_logs => Len(aggregator.logs) = aggregator.max_logs
    /\ Len(added) < aggregator.max_logs => Len(aggregator.logs) = Len(added)

\* entries were dropped, and the oldest entry added is not the oldest kept
C37_Witness ==
    /\ Len(added) = MaxAdded
    /\ Len(added) > aggregator.max_logs
    /\ Len(aggregator.logs) = aggregator.max_logs
    /\ added[1] # aggregator.logs[1]
    /\ aggregator.logs[Len(aggregator.logs)] = added[Len(added)]

\* the step is the call of op for component c by a handler: the call is
\* suspended at its first await, or it returns at once
CalledFor(op, c) ==
    \E t \in Tasks :
        /\ tasks[t].pc = "idle"
        /\ \/ /\ tasks'[t].pc # "idle"
              /\ tasks'[t].op = op
              /\ tasks'[t].component = c
           \/ /\ tasks' = tasks
              /\ envLast'.tick # envLast.tick
              /\ envLast'.op = op
              /\ envLast'.component = c

\* the call of the step returned True at once and left the component
\* table and the processes as they were
ReturnedTrueUnchanged ==
    /\ tasks' = tasks
    /\ envLast'.ret = Bool(TRUE)
    /\ env' = env
    /\ os' = os

\* C38: whenever no handler is in the middle of a step, a component whose
\* running flag is set has a process handle; start_component for a
\* component whose flag is set, and stop_component for one whose flag is
\* not set, return True and change nothing.
C38_RunningHasProcess ==
    /\ [](\A c \in Components :
            env.components[c].running => env.components[c].process # 0)
    /\ [][\A c \in Components :
            (CalledFor("start", c) /\ env.components[c].running)
                => ReturnedTrueUnchanged]_vars
    /\ [][\A c \in Components :
            (CalledFor("stop", c) /\ ~env.components[c].running)
                => ReturnedTrueUnchanged]_vars

\* start_component was called for a component that was running and returned
\* True; the component is running and has its process handle
C38_Witness ==
    /\ envLast.op = "start"
    /\ envLast.log = "is already running"
    /\ envLast.ret = Bool(TRUE)
    /\ env.components[envLast.component].running
    /\ env.components[envLast.component].process # 0

=============================================================================
